---- MODULE Spec2Model ----
(***************************************************************************)
(* Figma-to-Vibe-Component: the normalizer (scene graph -> IR), the        *)
(* serializer registry and the name generation of the serializers.         *)
(*                                                                         *)
(* JavaScript values are modelled as follows.  A string-typed slot holds   *)
(* a TLA+ string; the values below stand for what an untyped external      *)
(* object can hold in such a slot instead of a string.  A property that is *)
(* not present on an object is a field that is not in the DOMAIN of the    *)
(* record.  An operator that can raise returns Ok(v) or Throw.             *)
(*                                                                         *)
(* Objects live in a heap: a scene graph is a function from handles to     *)
(* scene nodes whose children lists hold handles, and the IR built from it *)
(* is a function from handles to IR nodes, the IR node under handle h      *)
(* being the one that the call on scene node h returned.                   *)
(***************************************************************************)
EXTENDS Integers, Sequences, FiniteSets, TLC

VARIABLES
  input,      \* the external scene node handed to normalizeNode
  result,     \* what normalizeNode produced: NotCalled, Ok(ir) or Throw
  pc,         \* "ready" before the call, "done" after it
  registry,   \* the serializer registry: own keys in insertion order, values
  calls,      \* the serializers passed to register since the module loaded
  lookup,     \* the last getSerializer call: id, value, calls made before it
  listed,     \* what the last getAvailableSerializers call returned
  selectedNode,      \* the IR tree that the UI hands to generate
  classCounter,      \* classCounter of the React serializer
  htmlClassCounter,  \* classCounter of the HTML serializer
  generated,  \* the output of the last generate call on selectedNode
  variant,    \* the UI that runs: "App.tsx" or "revamp" (part_006)
  state,      \* the React state of the App component
  closure,    \* the state that the generateCode of the last render captured
  inflight,   \* the generateCode calls that await serializer.generate
  lastCall,   \* how the generateCode call that ended last left the state
  handled,    \* the number of messages and clicks handled so far
  arg,        \* a function of the serializers or of utils.ts and its argument
  ret         \* what the function returned for arg: NotCalled, Ok(v) or Throw

normVars == <<input, result, pc>>
regVars == <<registry, calls, lookup, listed>>
genVars == <<selectedNode, classCounter, htmlClassCounter, generated>>
uiVars == <<variant, state, closure, inflight, lastCall, handled>>
pureVars == <<arg, ret>>
vars == <<normVars, regVars, genVars, uiVars, pureVars>>

----------------------------------------------------------------------------
(* JavaScript values *)

UNDEFINED  == "<<undefined>>"   \* the value undefined
MIXED      == "<<symbol>>"      \* a symbol, e.g. the host's figma.mixed
BIGINT     == "<<bigint>>"      \* a value JSON.stringify rejects (BigInt, cycle)
THROWS     == "<<throws>>"      \* a property whose getter raises when read
NOTASTRING == "<<number>>"      \* a truthy value without string methods

Ok(v) == [ok |-> TRUE, val |-> v]
Throw == [ok |-> FALSE]
NotCalled == [ok |-> FALSE, called |-> FALSE]

Has(node, f) == f \in DOMAIN node

\* v || d for a string-typed slot
OrElse(v, d) == IF v \in {UNDEFINED, ""} THEN d ELSE v

\* Object.assign({}, base, ext)
Assign(base, ext) ==
  [f \in DOMAIN base \cup DOMAIN ext |->
     IF f \in DOMAIN ext THEN ext[f] ELSE base[f]]

Min(a, b) == IF a < b THEN a ELSE b

\* the function f with every value computed
Eager(f) == f @@ <<>>

\* String.prototype.toLowerCase on the node kinds and enum values of the host
toLowerCase(s) ==
  CASE s = "FRAME" -> "frame"
    [] s = "COMPONENT" -> "component"
    [] s = "INSTANCE" -> "instance"
    [] s = "GROUP" -> "group"
    [] s = "TEXT" -> "text"
    [] s = "VECTOR" -> "vector"
    [] s = "STAR" -> "star"
    [] s = "POLYGON" -> "polygon"
    [] s = "ELLIPSE" -> "ellipse"
    [] s = "RECTANGLE" -> "rectangle"
    [] s = "LINE" -> "line"
    [] s = "BOOLEAN_OPERATION" -> "boolean_operation"
    [] s = "NONE" -> "none"
    [] s = "HORIZONTAL" -> "horizontal"
    [] s = "VERTICAL" -> "vertical"
    [] s = "CENTER" -> "center"
    [] s = "BOTTOM" -> "bottom"
    [] s = "UNDERLINE" -> "underline"
    [] s = "UPPER" -> "upper"
    [] OTHER -> s

----------------------------------------------------------------------------
(* normalise.ts *)

MAX_RECURSION_DEPTH == 100
MAX_CHILDREN_COUNT == 1000

\* the slots of an IR node that hold a raw copy of an external string slot
RawSlots == {"id", "name", "blendMode", "characters", "vectorData"}

\* an IR tree of one node
Single(h, node) == [root |-> h, nodes |-> (h :> node)]

\* JSON.stringify raises on the tree
StringifyThrows(ir) ==
  \E h \in DOMAIN ir.nodes :
    \E f \in RawSlots \cap DOMAIN ir.nodes[h] : ir.nodes[h][f] = BIGINT

\* JSON.stringify leaves the property out of the object
Omitted(node, f) == f \in RawSlots /\ node[f] \in {UNDEFINED, MIXED}

\* JSON.parse(JSON.stringify(style)) on a textStyle: the fields that hold a
\* symbol, style.mixed, are left out
StyleJson(style) ==
  [f \in DOMAIN style \ style.mixed |-> IF f = "mixed" THEN {} ELSE style[f]]

\* JSON.parse(JSON.stringify(node)) on the node's own properties
NodeJson(node) ==
  [f \in {g \in DOMAIN node : ~Omitted(node, g)} |->
     IF f = "textStyle" THEN StyleJson(node[f]) ELSE node[f]]

\* JSON.parse(JSON.stringify(ir)), for a tree on which stringify succeeds
JsonRoundTrip(ir) ==
  [root |-> ir.root,
   nodes |-> [h \in DOMAIN ir.nodes |-> NodeJson(ir.nodes[h])]]

sanitizeIRNode(ir) ==
  IF StringifyThrows(ir)
    THEN LET node == ir.nodes[ir.root] IN
         Single(ir.root,
           [id |-> OrElse(node.id, "fallback"),
            name |-> OrElse(node.name, "Unknown"),
            type |-> "vector",
            visible |-> TRUE,
            locked |-> FALSE,
            x |-> 0, y |-> 0, width |-> 0, height |-> 0,
            rotation |-> 0,
            opacity |-> 1,
            fills |-> <<>>,
            strokes |-> <<>>,
            effects |-> <<>>,
            constraints |-> [horizontal |-> "left", vertical |-> "top"],
            cornerRadius |-> <<>>,
            blendMode |-> "normal",
            exportSettings |-> <<>>])
    ELSE JsonRoundTrip(ir)

\* a read of the node's base attributes raises
BaseReadThrows(node) ==
  \/ node.type \in {UNDEFINED, NOTASTRING}      \* node.type.toLowerCase()
  \/ \E f \in {"id", "name", "blendMode"} \cap DOMAIN node : node[f] = THROWS

normalizeLayoutProps(node) ==
  IF Has(node, "layoutMode") /\ node.layoutMode = NOTASTRING
    THEN Throw
    ELSE Ok([mode |-> IF Has(node, "layoutMode") /\ node.layoutMode # UNDEFINED
                        THEN toLowerCase(node.layoutMode) ELSE "none",
             primaryAxisSizingMode |-> "fixed",
             counterAxisSizingMode |-> "fixed",
             primaryAxisAlignItems |-> "min",
             counterAxisAlignItems |-> "min",
             itemSpacing |-> IF Has(node, "itemSpacing") THEN node.itemSpacing ELSE 0,
             padding |-> [top |-> 0, right |-> 0, bottom |-> 0, left |-> 0]])

\* the property p of a text node holds figma.mixed, a symbol: the node lists
\* such properties in node.mixed instead of carrying them as fields
Mixed(node, p) == Has(node, "mixed") /\ p \in node.mixed

\* node[p] ? node[p].toLowerCase() : d
LowerOr(node, p, d) == IF Has(node, p) THEN toLowerCase(node[p]) ELSE d

\* the fields of the style that hold a symbol are listed in its field mixed;
\* lineHeight is [value |-> n] for the number n and [auto |-> TRUE] for "auto"
normalizeTextStyle(node) ==
  IF \/ Has(node, "fontName") /\ node.fontName.style = NOTASTRING
                                                \* fontName.style.replace(...)
     \/ Mixed(node, "textDecoration")           \* symbol.toLowerCase()
     \/ Mixed(node, "textCase")
    THEN Throw
    ELSE Ok([fontFamily |-> IF Has(node, "fontName")
                              THEN OrElse(node.fontName.family, "Inter")
                              ELSE "Inter",
             fontWeight |-> 400,
             fontSize |-> IF Has(node, "fontSize") /\ node.fontSize # 0
                            THEN node.fontSize ELSE 16,
             lineHeight |-> IF Has(node, "lineHeight")
                                /\ Has(node.lineHeight, "value")
                                /\ node.lineHeight.value # 0
                              THEN [value |-> node.lineHeight.value]
                              ELSE [auto |-> TRUE],
             letterSpacing |-> IF Has(node, "letterSpacing")
                                 THEN node.letterSpacing.value ELSE 0,
             textAlignHorizontal |-> LowerOr(node, "textAlignHorizontal", "left"),
             textAlignVertical |-> LowerOr(node, "textAlignVertical", "top"),
             textDecoration |-> LowerOr(node, "textDecoration", "none"),
             textCase |-> LowerOr(node, "textCase", "original"),
             mixed |-> {p \in {"fontSize", "lineHeight"} : Mixed(node, p)}])

\* the fields that hold x, or none when x is undefined
Field(f, node, from) == IF Has(node, from) THEN (f :> node[from]) ELSE <<>>

\* result.all is set for a number; a mixed cornerRadius is no field of the node
normalizeCornerRadius(node) ==
  Assign(Field("all", node, "cornerRadius"),
    Assign(Field("topLeft", node, "topLeftRadius"),
      Assign(Field("topRight", node, "topRightRadius"),
        Assign(Field("bottomLeft", node, "bottomLeftRadius"),
               Field("bottomRight", node, "bottomRightRadius")))))

normalizeBaseNode(node) ==
  IF BaseReadThrows(node)
    THEN Throw
    ELSE Ok([id |-> node.id,
             name |-> node.name,
             type |-> toLowerCase(node.type),
             visible |-> node.visible,
             locked |-> node.locked,
             x |-> IF Has(node, "x") THEN node.x ELSE 0,
             y |-> IF Has(node, "y") THEN node.y ELSE 0,
             width |-> IF Has(node, "width") THEN node.width ELSE 0,
             height |-> IF Has(node, "height") THEN node.height ELSE 0,
             rotation |-> IF Has(node, "rotation") THEN node.rotation ELSE 0,
             opacity |-> IF Has(node, "opacity") THEN node.opacity ELSE 1,
             fills |-> <<>>,
             strokes |-> <<>>,
             effects |-> <<>>,
             constraints |-> [horizontal |-> "left", vertical |-> "top"],
             cornerRadius |-> normalizeCornerRadius(node),
             blendMode |-> IF Has(node, "blendMode") THEN node.blendMode ELSE "normal",
             exportSettings |-> <<>>])

\* children.slice(0, MAX_CHILDREN_COUNT)
childrenToProcess(children) ==
  SubSeq(children, 1, Min(Len(children), MAX_CHILDREN_COUNT))

\* the depth guard: depth > MAX_RECURSION_DEPTH
depthExceeded(depth) == depth > MAX_RECURSION_DEPTH

\* the kind-specific part of normalizeNodeWithDepth raises on the node
KindThrows(node) ==
  CASE node.type \in {"FRAME", "COMPONENT", "INSTANCE"} -> ~normalizeLayoutProps(node).ok
    [] node.type = "TEXT" -> ~normalizeTextStyle(node).ok
    [] OTHER -> FALSE

\* the call normalizeNodeWithDepth(node, depth) raises: an exception in the
\* children of a container is caught inside the call and never leaves it
callRaises(node, depth) ==
  \/ BaseReadThrows(node)
  \/ ~depthExceeded(depth) /\ KindThrows(node)

\* the catch block around one child: the fallback node of the child
childFallback(child) ==
  LET b == normalizeBaseNode(child)
  IN  IF b.ok THEN Ok(Assign(b.val, [type |-> "vector"])) ELSE Throw

\* the try block around the children of a container: the children list.
\* The children of the IR node are the objects the calls on the children
\* returned, or none when the fallback of a child raised out of map().
normalizeChildren(heap, node, depth) ==
  IF ~Has(node, "children")
    THEN <<>>
    ELSE LET todo == childrenToProcess(node.children)
         IN  IF \E i \in 1..Len(todo) :
                  /\ callRaises(heap[todo[i]], depth + 1)
                  /\ ~childFallback(heap[todo[i]]).ok
               THEN <<>>                        \* outer catch: children = []
               ELSE todo

\* one call of normalizeNodeWithDepth on the scene node under handle h
normalizeNodeWithDepth(heap, h, depth) ==
  LET node == heap[h] IN
  IF depthExceeded(depth)
    THEN normalizeBaseNode(node)
    ELSE
      LET base == normalizeBaseNode(node) IN
      IF ~base.ok THEN Throw
      ELSE CASE node.type \in {"FRAME", "COMPONENT", "INSTANCE"} ->
                  LET layout == normalizeLayoutProps(node)
                  IN  IF ~layout.ok THEN Throw
                      ELSE Ok(Assign(base.val,
                                [type |-> toLowerCase(node.type),
                                 children |-> normalizeChildren(heap, node, depth),
                                 layoutProps |-> layout.val,
                                 clipsContent |-> FALSE,
                                 background |-> <<>>]))
             [] node.type = "TEXT" ->
                  LET style == normalizeTextStyle(node)
                  IN  IF ~style.ok THEN Throw
                      ELSE Ok(Assign(base.val,
                                [type |-> "text",
                                 characters |-> IF Has(node, "characters")
                                                  THEN node.characters ELSE UNDEFINED,
                                 textStyle |-> style.val]))
             [] node.type \in {"VECTOR", "STAR", "POLYGON", "ELLIPSE", "RECTANGLE"} ->
                  Ok(Assign(base.val,
                       [type |-> toLowerCase(node.type),
                        vectorData |-> UNDEFINED]))
             [] node.type = "GROUP" ->
                  Ok(Assign(base.val,
                       [type |-> "group",
                        children |-> normalizeChildren(heap, node, depth)]))
             [] OTHER ->
                  Ok(Assign(base.val, [type |-> "vector"]))

\* childrenToProcess.map(child => try normalize catch fallback), for the
\* child under handle c of a container at the given depth
processChild(heap, c, depth) ==
  IF callRaises(heap[c], depth + 1)
    THEN childFallback(heap[c])
    ELSE normalizeNodeWithDepth(heap, c, depth + 1)

\* the children list of an IR node
IRChildren(node) == IF Has(node, "children") THEN node.children ELSE <<>>

\* the tree that the recursion builds below the root node r.val: the IR
\* nodes that are linked, through children lists, to the root
IRTree(scene, rootNode) ==
  LET made == Eager([h \in DOMAIN scene.heap |->
                       IF h = scene.root
                         THEN Ok(rootNode)
                         ELSE processChild(scene.heap, h, Len(scene.path[h]) - 2)])
      linked(h) ==
        \A k \in 2..Len(scene.path[h]) :
          LET p == scene.path[h][k - 1]
              c == scene.path[h][k]
          IN  /\ made[p].ok
              /\ scene.index[c] <= Len(IRChildren(made[p].val))
              /\ IRChildren(made[p].val)[scene.index[c]] = c
  IN  [root |-> scene.root,
       nodes |-> [h \in {g \in DOMAIN scene.heap : linked(g)} |-> made[h].val]]

normalizeNode(scene) ==
  LET r == normalizeNodeWithDepth(scene.heap, scene.root, 0)
  IN  IF r.ok
        THEN Ok(sanitizeIRNode(IRTree(scene, r.val)))
        ELSE LET b == normalizeBaseNode(scene.heap[scene.root])   \* in the catch block
             IN  IF b.ok
                   THEN Ok(sanitizeIRNode(
                             Single(scene.root, Assign(b.val, [type |-> "vector"]))))
                   ELSE Throw

----------------------------------------------------------------------------
(* the scene graphs handed to the normalizer *)

MaxSmallChildren == 2   \* children of the root of a small scene graph
MaxShallow == 2         \* containers above the last node of a short chain
WideExtra == 2          \* children beyond MAX_CHILDREN_COUNT
DeepExtra == 3          \* containers beyond MAX_RECURSION_DEPTH

\* a readable external node with identity and geometry
SceneNode(id, kind, g) ==
  [id |-> id, name |-> "Node " \o id, type |-> kind,
   visible |-> TRUE, locked |-> FALSE,
   x |-> g, y |-> 2 * g, width |-> 10 + g, height |-> 20 + g]

LeafShapes ==
  {"rect", "text", "line", "notype", "getter", "bigname", "badfont", "badlayout",
   "baretext", "styledtext", "mixedtext", "mixedcase"}
NestedShapes == {"frame1", "group2", "bool2", "vframe"}
Shapes == LeafShapes \cup NestedShapes
ContainerKinds == {"FRAME", "COMPONENT", "INSTANCE", "GROUP"}

\* the shapes of the children that a nested shape brings along
ShapeKids(shape) ==
  CASE shape = "frame1" -> <<"rect">>
    [] shape = "group2" -> <<"rect", "text">>
    [] shape = "bool2" -> <<"rect", "rect">>
    [] shape = "vframe" -> <<"text">>
    [] OTHER -> <<>>

\* an external node of the given shape; kids are the handles of its children
ShapeNode(shape, id, g, kids) ==
  CASE shape = "rect" -> SceneNode(id, "RECTANGLE", g)
    [] shape = "text" ->
         Assign(SceneNode(id, "TEXT", g),
                [characters |-> "hi", fontSize |-> 12,
                 fontName |-> [family |-> "Inter", style |-> "Bold"]])
    [] shape = "line" -> SceneNode(id, "LINE", g)
    [] shape = "notype" -> SceneNode(id, UNDEFINED, g)
    [] shape = "getter" -> Assign(SceneNode(id, "RECTANGLE", g), [name |-> THROWS])
    [] shape = "bigname" -> Assign(SceneNode(id, "RECTANGLE", g), [name |-> BIGINT])
    [] shape = "badfont" ->
         Assign(SceneNode(id, "TEXT", g),
                [characters |-> "hi",
                 fontName |-> [family |-> "Inter", style |-> NOTASTRING]])
    [] shape = "baretext" -> Assign(SceneNode(id, "TEXT", g), [characters |-> "hi"])
    [] shape = "styledtext" ->
         Assign(SceneNode(id, "TEXT", g),
                [characters |-> "hi", fontSize |-> 24,
                 fontName |-> [family |-> "Roboto", style |-> "Bold"],
                 lineHeight |-> [value |-> 32, unit |-> "PIXELS"],
                 letterSpacing |-> [value |-> 2, unit |-> "PIXELS"],
                 textAlignHorizontal |-> "CENTER", textAlignVertical |-> "BOTTOM",
                 textDecoration |-> "UNDERLINE", textCase |-> "UPPER"])
    [] shape = "mixedtext" ->
         Assign(SceneNode(id, "TEXT", g),
                [characters |-> "hi",
                 mixed |-> {"fontName", "fontSize", "lineHeight", "letterSpacing"}])
    [] shape = "mixedcase" ->
         Assign(SceneNode(id, "TEXT", g),
                [characters |-> "hi", fontSize |-> 12, mixed |-> {"textCase"}])
    [] shape = "badlayout" ->
         Assign(SceneNode(id, "FRAME", g),
                [layoutMode |-> NOTASTRING, children |-> <<>>])
    [] shape = "frame1" -> Assign(SceneNode(id, "FRAME", g), [children |-> kids])
    [] shape = "group2" -> Assign(SceneNode(id, "GROUP", g), [children |-> kids])
    [] shape = "bool2" ->
         Assign(SceneNode(id, "BOOLEAN_OPERATION", g), [children |-> kids])
    [] shape = "vframe" ->
         Assign(SceneNode(id, "FRAME", g),
                [layoutMode |-> "VERTICAL", itemSpacing |-> 8, children |-> kids])

MaxShapeKids == 2

\* a container of the given kind whose children have the shapes ss.  Handle 1
\* is the root, 1 + i its i-th child, and the children of the children
\* follow.
Star(kind, ss) ==
  LET n == Len(ss)
      kid(i, j) == 1 + n + MaxShapeKids * (i - 1) + j
      kidsOf(i) == [j \in 1..Len(ShapeKids(ss[i])) |-> kid(i, j)]
      owner(h) == ((h - 2 - n) \div MaxShapeKids) + 1
      place(h) == ((h - 2 - n) % MaxShapeKids) + 1
      grand == {kid(i, j) : i \in {k \in 1..n : ss[k] \in NestedShapes},
                            j \in 1..MaxShapeKids}
      kids == {h \in grand : place(h) <= Len(ShapeKids(ss[owner(h)]))}
      id(h) == "1:" \o ToString(h)
  IN  [root |-> 1,
       heap |-> Eager(
         (1 :> Assign(SceneNode(id(1), kind, 0), [children |-> [i \in 1..n |-> 1 + i]]))
         @@ [h \in 2..(n + 1) |-> ShapeNode(ss[h - 1], id(h), h, kidsOf(h - 1))]
         @@ [h \in kids |->
               ShapeNode(ShapeKids(ss[owner(h)])[place(h)], id(h), h, <<>>)]),
       path |-> Eager(
         (1 :> <<1>>)
         @@ [h \in 2..(n + 1) |-> <<1, h>>]
         @@ [h \in kids |-> <<1, 1 + owner(h), h>>]),
       index |-> Eager(
         (1 :> 0)
         @@ [h \in 2..(n + 1) |-> h - 1]
         @@ [h \in kids |-> place(h)])]

\* n containers, each the only child of the one before, above a node of the
\* given shape.  Handles 1..n are the containers, n + 1 the last node.
Chain(kinds, n, shape) ==
  LET last == n + 1
      kidsOf == [j \in 1..Len(ShapeKids(shape)) |-> last + j]
      kids == {last + j : j \in 1..Len(ShapeKids(shape))}
      id(h) == "2:" \o ToString(h)
      kindAt(h) == kinds[((h - 1) % Len(kinds)) + 1]
  IN  [root |-> 1,
       heap |-> Eager(
         [h \in 1..n |-> Assign(SceneNode(id(h), kindAt(h), h), [children |-> <<h + 1>>])]
         @@ (last :> ShapeNode(shape, id(last), last, kidsOf))
         @@ [h \in kids |-> ShapeNode(ShapeKids(shape)[h - last], id(h), h, <<>>)]),
       path |-> Eager(
         [h \in 1..last |-> [k \in 1..h |-> k]]
         @@ [h \in kids |-> [k \in 1..(last + 1) |-> IF k <= last THEN k ELSE h]]),
       index |-> Eager(
         [h \in 1..last |-> IF h = 1 THEN 0 ELSE 1]
         @@ [h \in kids |-> h - last])]

ShapeSeqs ==
  UNION {[1..n -> Shapes] : n \in 0..MaxSmallChildren}

SmallInputs ==
  {Star(kind, ss) : kind \in ContainerKinds, ss \in ShapeSeqs}

\* containers with about MAX_CHILDREN_COUNT children, all rectangles but one
WideInputs ==
  {Star(kind, [i \in 1..n |-> IF i = at THEN odd ELSE "rect"]) :
     kind \in {"FRAME", "GROUP"},
     n \in (MAX_CHILDREN_COUNT - 1)..(MAX_CHILDREN_COUNT + WideExtra),
     odd \in {"rect", "line", "badfont", "notype", "frame1"},
     at \in {1, MAX_CHILDREN_COUNT, MAX_CHILDREN_COUNT + 1}}

ChainKinds == {<<"FRAME">>, <<"GROUP">>, <<"FRAME", "GROUP", "INSTANCE">>}

ShallowInputs ==
  {Chain(kinds, n, shape) : kinds \in ChainKinds, n \in 0..MaxShallow, shape \in Shapes}

\* chains of about MAX_RECURSION_DEPTH containers
DeepInputs ==
  {Chain(kinds, n, shape) :
     kinds \in ChainKinds,
     n \in (MAX_RECURSION_DEPTH - 1)..(MAX_RECURSION_DEPTH + DeepExtra),
     shape \in Shapes}

Inputs == SmallInputs \cup WideInputs \cup ShallowInputs \cup DeepInputs

----------------------------------------------------------------------------
(* the serializer registry *)

MaxRegisterCalls == 3   \* register calls after start-up

\* the value undefined where a serializer is expected
Undefined == [undefined |-> TRUE]

\* a serializer object; obj tells apart two objects with the same id
Serializer(id, obj) == [id |-> id, obj |-> obj]

\* let registry = {}
EmptyRegistry == [keys |-> <<>>, vals |-> <<>>]

\* the members that every object literal inherits from Object.prototype
ObjectPrototype ==
  {"constructor", "hasOwnProperty", "isPrototypeOf", "propertyIsEnumerable",
   "toLocaleString", "toString", "valueOf"}

\* registry[id]: an own property, an inherited member, or undefined
Lookup(reg, id) ==
  IF id \in DOMAIN reg.vals THEN reg.vals[id]
  ELSE IF id \in ObjectPrototype THEN [inherited |-> id]
  ELSE Undefined

\* registry[serializer.id] = serializer
register(reg, serializer) ==
  [keys |-> IF serializer.id \in DOMAIN reg.vals
              THEN reg.keys ELSE Append(reg.keys, serializer.id),
   vals |-> [k \in DOMAIN reg.vals \cup {serializer.id} |->
               IF k = serializer.id THEN serializer ELSE reg.vals[k]]]

\* Object.keys(registry).map(key => registry[key])
getAvailableSerializers(reg) ==
  [i \in 1..Len(reg.keys) |-> reg.vals[reg.keys[i]]]

getSerializer(reg, id) ==
  IF Lookup(reg, id) = Undefined THEN Undefined ELSE Lookup(reg, id)

\* the serializer modules in the order in which the registry imports them,
\* each with the id of the serializer that it registers
StartUpOrder ==
  << Serializer("json", 1), Serializer("html", 2), Serializer("react", 3),
     Serializer("react-native", 4), Serializer("flutter", 5),
     Serializer("swiftui", 6), Serializer("vue3", 7) >>

RECURSIVE RegisterAll(_, _)
RegisterAll(reg, ss) ==
  IF ss = <<>> THEN reg
  ELSE RegisterAll(register(reg, Head(ss)), Tail(ss))

\* the registry once the modules are loaded
StartUpRegistry == RegisterAll(EmptyRegistry, StartUpOrder)

\* the ids of the format catalog that the plugin sends to the UI
FormatCatalog ==
  <<"json", "html", "react", "react-native", "flutter", "swiftui", "vue">>

RegisterIds == {"angular", "json", "vue", "constructor"}

LookupIds ==
  {FormatCatalog[i] : i \in 1..Len(FormatCatalog)}
    \cup {"angular", "vue3", "constructor", "toString"}

NoLookup == [id |-> "", value |-> Undefined, after |-> 0]

----------------------------------------------------------------------------
(* identifiers in the output of the serializers *)

MaxGenChildren == 2     \* children of the root of an IR tree handed to generate

UpperCase ==
  <<"A", "B", "C", "D", "E", "F", "G", "H", "I", "J", "K", "L", "M",
    "N", "O", "P", "Q", "R", "S", "T", "U", "V", "W", "X", "Y", "Z">>
LowerCase ==
  <<"a", "b", "c", "d", "e", "f", "g", "h", "i", "j", "k", "l", "m",
    "n", "o", "p", "q", "r", "s", "t", "u", "v", "w", "x", "y", "z">>
DecimalDigits == <<"0", "1", "2", "3", "4", "5", "6", "7", "8", "9">>

\* a string of which the characters matter is a sequence of characters
Within(cs, c) == \E i \in 1..Len(cs) : cs[i] = c
IsUpper(c) == Within(UpperCase, c)
IsLower(c) == Within(LowerCase, c)
IsDigit(c) == Within(DecimalDigits, c)
IsAlnum(c) == IsUpper(c) \/ IsLower(c) \/ IsDigit(c)

lowerChar(c) ==
  IF IsUpper(c) THEN LowerCase[CHOOSE i \in 1..Len(UpperCase) : UpperCase[i] = c] ELSE c
upperChar(c) ==
  IF IsLower(c) THEN UpperCase[CHOOSE i \in 1..Len(LowerCase) : LowerCase[i] = c] ELSE c

\* String.prototype.toLowerCase, character by character
lowerCase(cs) == [i \in 1..Len(cs) |-> lowerChar(cs[i])]

\* the characters of cs at the positions in keep, in their order
AtPositions(cs, keep) ==
  LET nth(k) == CHOOSE i \in keep : Cardinality({j \in keep : j <= i}) = k
  IN  [k \in 1..Cardinality(keep) |-> cs[nth(k)]]

\* replace(/c+/g, c): a run of the character c becomes one c
CollapseRuns(cs, c) ==
  AtPositions(cs, {i \in 1..Len(cs) : ~(i > 1 /\ cs[i] = c /\ cs[i - 1] = c)})

\* replace(/^c|c$/g, ""): drop one c at the start and one c at the end
TrimOne(cs, c) ==
  AtPositions(cs, {i \in 1..Len(cs) : ~(cs[i] = c /\ (i = 1 \/ i = Len(cs)))})

RECURSIVE Decimal(_)
\* the decimal digits of a natural number
Decimal(n) ==
  IF n < 10 THEN <<DecimalDigits[n + 1]>>
  ELSE Decimal(n \div 10) \o <<DecimalDigits[(n % 10) + 1]>>

\* react.ts: the class name of a node, counter being classCounter after the
\* increment
generateClassName(name, counter) ==
  LET replaced == [i \in 1..Len(name) |-> IF IsAlnum(name[i]) THEN name[i] ELSE "_"]
      trimmed == TrimOne(CollapseRuns(replaced, "_"), "_")
      prefixed == IF trimmed # <<>> /\ IsDigit(trimmed[1])
                    THEN <<"n">> \o trimmed ELSE trimmed
      baseName == lowerCase(prefixed)
  IN  (IF baseName = <<>> THEN <<"e", "l", "e", "m", "e", "n", "t">> ELSE baseName)
        \o <<"_">> \o Decimal(counter)

\* the HTML serializer: the class name of a node
htmlGenerateClassName(name, counter) ==
  LET replaced == [i \in 1..Len(name) |-> IF IsAlnum(name[i]) THEN name[i] ELSE "-"]
      baseName == lowerCase(TrimOne(CollapseRuns(replaced, "-"), "-"))
  IN  (IF baseName = <<>> THEN <<"e", "l", "e", "m", "e", "n", "t">> ELSE baseName)
        \o <<"-">> \o Decimal(counter)

\* utils.ts
sanitizeClassName(name) ==
  IF name = <<>> THEN <<"c", "o", "m", "p", "o", "n", "e", "n", "t">>
  ELSE
    LET replaced == [i \in 1..Len(name) |->
                       IF IsAlnum(name[i]) \/ name[i] \in {"-", "_"}
                         THEN name[i] ELSE "-"]
        first == [i \in 1..Len(replaced) |->
                    IF i = 1 /\ ~(IsUpper(replaced[1]) \/ IsLower(replaced[1])
                                    \/ replaced[1] = "_")
                      THEN "_" ELSE replaced[i]]
    IN  lowerCase(CollapseRuns(first, "-"))

\* utils.ts: replace(/-([a-z])/g, letter => letter.toUpperCase())
toCamelCase(cs) ==
  LET matched(i) == i > 1 /\ cs[i - 1] = "-" /\ IsLower(cs[i])
      upper == [i \in 1..Len(cs) |-> IF matched(i) THEN upperChar(cs[i]) ELSE cs[i]]
  IN  AtPositions(upper, {i \in 1..Len(cs) : ~(i < Len(cs) /\ matched(i + 1))})

\* the React Native serializer: the style name of a node
styleName(name) ==
  LET named == IF name = <<>>
                 THEN <<"c", "o", "m", "p", "o", "n", "e", "n", "t">> ELSE name
  IN  toCamelCase(AtPositions(named, {i \in 1..Len(named) : IsAlnum(named[i])}))

\* the names of the nodes of the IR trees handed to generate
GenNames ==
  { <<"B", "t", "n">>, <<"B", "t", "n", " ", "1">>, <<"1", "x">>, <<>> }

GenChildTypes == {"rectangle", "text", "frame"}

\* the children of the root: a name and a type each
GenChildren ==
  UNION {[1..n -> [name : GenNames, type : GenChildTypes]] : n \in 0..MaxGenChildren}

\* an IR tree: a frame, its children, and one rectangle in each child that
\* is a frame.  Handle 1 is the root, 1 + i its i-th child.
GenTree(kids) ==
  LET n == Len(kids)
      inner == {n + 1 + i : i \in {k \in 1..n : kids[k].type = "frame"}}
  IN  [root |-> 1,
       nodes |->
         (1 :> [name |-> <<"C", "a", "r", "d">>, type |-> "frame",
                children |-> [i \in 1..n |-> 1 + i]])
         @@ [h \in 2..(n + 1) |->
               [name |-> kids[h - 1].name, type |-> kids[h - 1].type,
                children |-> IF kids[h - 1].type = "frame" THEN <<n + h>> ELSE <<>>]]
         @@ [h \in inner |->
               [name |-> <<"B", "t", "n">>, type |-> "rectangle", children |-> <<>>]]]

GenTrees == {GenTree(kids) : kids \in GenChildren}

RECURSIVE PreOrderFrom(_, _, _)
\* the nodes below the handles hs, each node before its children
PreOrderFrom(nodes, hs, fuel) ==
  IF hs = <<>> \/ fuel = 0 THEN <<>>
  ELSE <<Head(hs)>>
         \o PreOrderFrom(nodes, nodes[Head(hs)].children, fuel - 1)
         \o PreOrderFrom(nodes, Tail(hs), fuel)

\* the order in which generateJSXElement and generateHTMLElement visit the
\* nodes of the tree: a node is named before its children are emitted,
\* where an emitter that named a node after its children would visit in
\* the opposite order
ChildrenFirst(tree) ==
  LET pre == PreOrderFrom(tree.nodes, <<tree.root>>, Cardinality(DOMAIN tree.nodes))
  IN  [k \in 1..Len(pre) |-> pre[Len(pre) + 1 - k]]
VisitOrder(tree) ==
  PreOrderFrom(tree.nodes, <<tree.root>>, Cardinality(DOMAIN tree.nodes))

\* the position of the node in the visit order
VisitIndex(tree, h) ==
  CHOOSE k \in 1..Len(VisitOrder(tree)) : VisitOrder(tree)[k] = h

\* react.ts: the class names in the JSX, the counter being reset to start
generateJSXElement(tree, start) ==
  [h \in DOMAIN tree.nodes |->
     generateClassName(tree.nodes[h].name, start + VisitIndex(tree, h))]

\* the HTML serializer: the class names in the markup
generateHTMLElement(tree, start) ==
  [h \in DOMAIN tree.nodes |->
     htmlGenerateClassName(tree.nodes[h].name, start + VisitIndex(tree, h))]

\* html.ts: the class names in the markup and in the style sheet
generateHtmlElement(tree) ==
  [h \in DOMAIN tree.nodes |-> sanitizeClassName(tree.nodes[h].name)]

\* the Vue serializer: the class names in the template and in the styles
generateVueTemplate(tree) ==
  [h \in DOMAIN tree.nodes |-> sanitizeClassName(tree.nodes[h].name)]

\* the React Native serializer: the style names in the component
generateRNComponent(tree) ==
  [h \in DOMAIN tree.nodes |-> styleName(tree.nodes[h].name)]

\* classCounter = 0 at the start of generate
keepCounter(counter) == counter
resetCounter(counter) == 0

\* the number of nodes of another IR tree handed to generate earlier
OtherTreeNodes == 7

\* entry is the value of the class counter of the serializer when the call
\* was entered
NoOutput == [format |-> "none", names |-> <<>>, entry |-> 0]

----------------------------------------------------------------------------
(* the UI: the App component of App.tsx and of the revamped UI *)

MaxHandled == 3     \* messages and clicks handled
MaxInflight == 2    \* generateCode calls awaiting serializer.generate

\* selectedNode: null; the node object that the k-th handled message or
\* click brought is k, every message carrying an object of its own
Null == 0

\* the formats offered by the format select: ids of getAvailableSerializers()
UiFormats ==
  {getAvailableSerializers(StartUpRegistry)[i].id :
     i \in 1..Len(getAvailableSerializers(StartUpRegistry))} \cap {"react", "flutter"}

\* generatedFiles: [] and error: null
NoFiles == [node |-> Null, format |-> ""]
NoError == [message |-> "", details |-> ""]

\* INITIAL_STATE
INITIAL_STATE ==
  [selectedNode |-> Null, selectedFormat |-> "react", isGenerating |-> FALSE,
   generatedFiles |-> NoFiles, error |-> NoError]

\* what the useCallback dependencies of generateCode hold in a state
Captured(st) == [selectedNode |-> st.selectedNode, selectedFormat |-> st.selectedFormat]

NoCall == [how |-> "none", node |-> Null, format |-> "",
           isGenerating |-> FALSE, stored |-> FALSE, recorded |-> FALSE]

\* how a generateCode call that ends leaves the state st
Ended(how, c, st) ==
  [how |-> how, node |-> c.selectedNode, format |-> c.selectedFormat,
   isGenerating |-> st.isGenerating,
   stored |-> st.generatedFiles = [node |-> c.selectedNode, format |-> c.selectedFormat],
   recorded |-> st.error # NoError]

\* the catch block of generateCode
generateCodeCatch(v, st) ==
  IF v = "App.tsx"
    THEN [st EXCEPT !.isGenerating = FALSE]
    ELSE [st EXCEPT !.isGenerating = FALSE,
                    !.error = [message |-> "Failed to generate code",
                               details |-> "Error.message"]]

\* generateCode of a render that captured c, up to its first await: the
\* state, the calls in flight and the last call that ended
generateCode(v, c, reg, st, waiting, last) ==
  IF c.selectedNode = Null
    THEN [state |-> st, inflight |-> waiting, lastCall |-> Ended("skipped", c, st)]
    ELSE
      LET busy == IF v = "App.tsx"
                    THEN [st EXCEPT !.isGenerating = TRUE]
                    ELSE [st EXCEPT !.isGenerating = TRUE, !.error = NoError]
      IN  IF getSerializer(reg, c.selectedFormat) = Undefined
            THEN IF v = "App.tsx"
                   THEN [state |-> busy, inflight |-> waiting,
                         lastCall |-> Ended("not found", c, busy)]
                   ELSE [state |-> generateCodeCatch(v, busy), inflight |-> waiting,
                         lastCall |-> Ended("not found", c, generateCodeCatch(v, busy))]
            ELSE [state |-> busy, inflight |-> Append(waiting, c), lastCall |-> last]

----------------------------------------------------------------------------
(* generate of the registered serializers on frames and groups *)

MaxGroupChildren == 2

\* an IR node as the normalizer and the controller build it: a frame has
\* layoutProps, a group (the controller's virtual group too) has none
IrNode(type, kids) ==
  CASE type = "frame" -> [type |-> type, layoutProps |-> [mode |-> "none"],
                          children |-> kids]
    [] type = "group" -> [type |-> type, children |-> kids]
    [] OTHER -> [type |-> type]

IrLeaves == {IrNode(t, <<>>) : t \in {"rectangle", "text", "frame", "group"}}

IrChildLists == UNION {[1..n -> IrLeaves] : n \in 0..MaxGroupChildren}

IrContainers == {IrNode(t, kids) : t \in {"frame", "group"}, kids \in IrChildLists}

ChildrenOf(node) == IF Has(node, "children") THEN node.children ELSE <<>>

\* whether the element generator of serializer id reads node.layoutProps.mode
readsLayoutMode(id, node) ==
  CASE id \in {"html", "react", "vue3"} -> node.type = "frame"
    [] id = "react-native" -> node.type \in {"frame", "group"}
    [] id \in {"flutter", "swiftui"} ->
         node.type \in {"frame", "group"} /\ ChildrenOf(node) # <<>>
    [] OTHER -> FALSE

\* serializer.generate(ir) of the serializer registered under id: the files
\* and the children of ir that the code of the files holds
generate(id, ir) ==
  LET visited == <<ir>> \o ChildrenOf(ir)
  IN  IF \E i \in 1..Len(visited) :
           readsLayoutMode(id, visited[i]) /\ ~Has(visited[i], "layoutProps")
        THEN Throw
        ELSE Ok([files |-> 1, children |-> ChildrenOf(ir)])

GenerateArgs ==
  {[fn |-> "generate", id |-> StartUpOrder[i].id, ir |-> ir] :
     i \in 1..Len(StartUpOrder), ir \in IrContainers}

----------------------------------------------------------------------------
(* normalizeEffects of normalise.ts *)

MaxEffects == 3

\* the effect type of the IR for an effect type of the host
effectType(t) ==
  CASE t = "DROP_SHADOW" -> "drop-shadow"
    [] t = "INNER_SHADOW" -> "inner-shadow"
    [] t = "LAYER_BLUR" -> "blur"
    [] t = "BACKGROUND_BLUR" -> "background-blur"
    [] OTHER -> "blur"

isVisible(effect) == effect.visible # FALSE

\* effects.filter(visible !== false).map(...): the n-th effect of the source
\* is source |-> n
normalizeEffects(effects) ==
  LET kept == SelectSeq([i \in 1..Len(effects) |-> Assign(effects[i], [source |-> i])],
                        isVisible)
  IN  [i \in 1..Len(kept) |->
         [type |-> effectType(kept[i].type), visible |-> kept[i].visible,
          radius |-> IF kept[i].type \in {"DROP_SHADOW", "INNER_SHADOW",
                                          "LAYER_BLUR", "BACKGROUND_BLUR"}
                       THEN kept[i].radius ELSE 0,
          source |-> kept[i].source]]

HostEffects ==
  {[type |-> t, visible |-> v, radius |-> 4] :
     t \in {"DROP_SHADOW", "LAYER_BLUR", "NOISE"}, v \in BOOLEAN}

EffectsArgs ==
  {[fn |-> "normalizeEffects", effects |-> e] :
     e \in UNION {[1..n -> HostEffects] : n \in 0..MaxEffects}}

----------------------------------------------------------------------------
(* the layout styles of the HTML serializers *)

MaxSpacing == 17

\* a CSS length: the number in thousandths, and the unit
Length(thousandths, unit) == [thousandths |-> thousandths, unit |-> unit]

\* `${(px / 16).toFixed(3)}rem`: toFixed rounds a tie to the larger digit
pxToRem(px) == Length((px * 125 + 1) \div 2, "rem")

hasAutoLayout(node) == node.type = "frame" /\ node.layoutProps.mode # "none"

flexDirection(mode) ==
  CASE mode = "horizontal" -> [flexDirection |-> "row"]
    [] mode = "vertical" -> [flexDirection |-> "column"]
    [] OTHER -> <<>>

\* the layout declarations of generateNodeStyles
generateNodeStyles(node) ==
  IF hasAutoLayout(node)
    THEN LET layout == node.layoutProps
         IN  Assign(Assign([display |-> "flex"], flexDirection(layout.mode)),
                    IF layout.itemSpacing > 0
                      THEN [gap |-> pxToRem(layout.itemSpacing)] ELSE <<>>)
    ELSE <<>>

\* the layout declarations of generateCssClass of html.ts
generateCssClass(node) ==
  IF node.type = "frame" /\ node.layoutProps.mode # "none"
    THEN LET layout == node.layoutProps
         IN  Assign(Assign([display |-> "flex"], flexDirection(layout.mode)),
                    [gap |-> Length(layout.itemSpacing * 1000, "px")])
    ELSE <<>>

StylesArgs ==
  {[fn |-> f, node |-> [type |-> "frame",
                        layoutProps |-> [mode |-> m, itemSpacing |-> sp]]] :
     f \in {"generateNodeStyles", "generateCssClass"},
     m \in {"none", "horizontal", "vertical"},
     sp \in 0..MaxSpacing}

----------------------------------------------------------------------------
(* fillToCss of utils.ts on gradients *)

MaxCoord == 1    \* the entries of the first row of a transform: -MaxCoord..MaxCoord

Abs(x) == IF x < 0 THEN 0 - x ELSE x

\* Math.round of atan(num / den) in degrees for 0 <= num <= den, den > 0, on
\* the ratios 0, 1/2 and 1
roundedAtan(num, den) ==
  CASE num = 0 -> 0
    [] num = den -> 45
    [] 2 * num = den -> 27

\* Math.round((Math.atan2(b, a) * 180) / Math.PI)
atan2Deg(b, a) ==
  LET first == IF a = 0 /\ b = 0 THEN 0
               ELSE IF Abs(b) <= Abs(a)
                 THEN roundedAtan(Abs(b), Abs(a))
                 ELSE 90 - roundedAtan(Abs(a), Abs(b))
      upper == IF a < 0 THEN 180 - first ELSE first
  IN  IF b < 0 THEN 0 - upper ELSE upper

\* let angle = "90deg"; if (gradient.transform ...) angle = ...; the earlier
\* fillToCss has the fixed angle
fixedAngle(gradient) == 90
gradientAngle(gradient) ==
  IF Has(gradient, "transform") /\ Len(gradient.transform) >= 2
    THEN atan2Deg(gradient.transform[1][2], gradient.transform[1][1])
    ELSE 90

\* fillToCss(fill) for a fill of type gradient: the CSS function and its angle
fillToCss(fill) ==
  LET gradient == fill.gradient
  IN  IF Len(gradient.stops) = 0
        THEN [css |-> "transparent"]
        ELSE CASE gradient.type = "linear" ->
                    [css |-> "linear-gradient", angle |-> gradientAngle(gradient)]
               [] gradient.type = "radial" -> [css |-> "radial-gradient"]
               [] gradient.type = "angular" ->
                    [css |-> "conic-gradient", angle |-> gradientAngle(gradient)]
               [] OTHER -> [css |-> "rgba"]

\* gradient fills as the normalizer builds them: the transform of the host
\* has two rows of three numbers, or is missing
GradientFills ==
  {[type |-> "gradient", gradient |-> g] :
     g \in {[type |-> t, stops |-> st] :
              t \in {"linear", "radial", "angular", "diamond"},
              st \in {<<>>, <<0>>, <<0, 100>>}}
        \cup {[type |-> t, stops |-> st, transform |-> <<<<a, b, 0>>, <<0, 1, 0>>>>] :
                t \in {"linear", "radial", "angular", "diamond"},
                st \in {<<>>, <<0, 100>>},
                a \in -MaxCoord..MaxCoord, b \in -MaxCoord..MaxCoord}}

FillArgs == {[fn |-> "fillToCss", fill |-> f] : f \in GradientFills}

----------------------------------------------------------------------------
(* cornerRadiusToCss of utils.ts *)

MaxRadius == 2

\* radius[f] || 0
CornerOr0(radius, f) == IF Has(radius, f) THEN radius[f] ELSE 0

\* the lengths in px of the returned value, in their order
cornerRadiusLonghand(radius) ==
  <<CornerOr0(radius, "topLeft"), CornerOr0(radius, "topRight"),
    CornerOr0(radius, "bottomRight"), CornerOr0(radius, "bottomLeft")>>
cornerRadiusToCss(radius) ==
  IF Has(radius, "all")
    THEN <<radius.all>>
    ELSE LET topLeft == CornerOr0(radius, "topLeft")
             topRight == CornerOr0(radius, "topRight")
             bottomRight == CornerOr0(radius, "bottomRight")
             bottomLeft == CornerOr0(radius, "bottomLeft")
         IN  IF topLeft = topRight /\ topRight = bottomRight /\ bottomRight = bottomLeft
               THEN <<topLeft>>
               ELSE <<topLeft, topRight, bottomRight, bottomLeft>>

Radii == 0..MaxRadius

CornerFields == {"topLeft", "topRight", "bottomRight", "bottomLeft"}

\* descriptors: some corners, or all alone, or all with four equal corners
RadiusDescriptors ==
  UNION {[fs -> Radii] : fs \in SUBSET CornerFields}
    \cup {[all |-> r] : r \in Radii}
    \cup {[all |-> r, topLeft |-> r, topRight |-> r, bottomRight |-> r, bottomLeft |-> r] :
            r \in Radii}

\* nodes of the host: cornerRadius is a number when the four corners are
\* equal and figma.mixed when they differ
CornerNodes ==
  {[type |-> "RECTANGLE", cornerRadius |-> r, topLeftRadius |-> r, topRightRadius |-> r,
    bottomLeftRadius |-> r, bottomRightRadius |-> r] : r \in Radii}
    \cup {n \in {[type |-> "RECTANGLE", mixed |-> {"cornerRadius"},
                   topLeftRadius |-> tl, topRightRadius |-> tr,
                   bottomLeftRadius |-> bl, bottomRightRadius |-> br] :
                    tl \in Radii, tr \in Radii, bl \in Radii, br \in Radii} :
            ~(/\ n.topLeftRadius = n.topRightRadius
              /\ n.topRightRadius = n.bottomRightRadius
              /\ n.bottomRightRadius = n.bottomLeftRadius)}
    \cup {[type |-> "VECTOR", cornerRadius |-> r] : r \in Radii}
    \cup {[type |-> "TEXT"]}

RadiusArgs ==
  {[fn |-> "cornerRadiusToCss", radius |-> d] : d \in RadiusDescriptors}
    \cup {[fn |-> "normalizeCornerRadius", node |-> n] : n \in CornerNodes}

----------------------------------------------------------------------------
(* generate: the options of the context and the files returned *)

\* types.ts: the fields of SerializerOptions
OptionNames ==
  {"inlineCss", "useTailwind", "nullSafety", "iosCompat", "exportAsComponent",
   "componentName"}

\* html.ts registers under the id "html" as well: the model keeps the two
\* HTML serializers apart by naming the one of html.ts "html.ts"
SerializerIds ==
  {"json", "html", "html.ts", "react", "react-native", "flutter", "swiftui", "vue3"}

\* the supportedOptions field of each serializer
supportedOptions(id) ==
  CASE id = "json" -> {}
    [] id = "html" -> {"componentName", "inlineCss"}
    [] id = "html.ts" -> {"inlineCss", "useTailwind"}
    [] id = "react" -> {"componentName", "inlineCss", "useTailwind"}
    [] id = "react-native" -> {"componentName"}
    [] id = "flutter" -> {"nullSafety", "componentName"}
    [] id = "swiftui" -> {"iosCompat", "componentName"}
    [] id = "vue3" -> {"inlineCss", "componentName"}

\* String.prototype.trim, the white space being the space character
trim(cs) ==
  LET solid == {i \in 1..Len(cs) : cs[i] # " "}
  IN  AtPositions(cs, {i \in 1..Len(cs) :
                         \E a \in solid, b \in solid : a <= i /\ i <= b})

\* utils.ts: the words of the name, capitalised and joined
sanitizeComponentName(name) ==
  IF name = <<>> THEN <<"F", "i", "g", "m", "a">> \o <<"C", "o", "m", "p", "o", "n", "e", "n", "t">>
  ELSE
    LET trimmed == trim(name)
        replaced == [i \in 1..Len(trimmed) |->
                       IF IsAlnum(trimmed[i]) THEN trimmed[i] ELSE " "]
        spaced == CollapseRuns(replaced, " ")
        word(i) == IF i = 1 \/ spaced[i - 1] = " "
                     THEN upperChar(spaced[i]) ELSE lowerChar(spaced[i])
        cleanName == AtPositions([i \in 1..Len(spaced) |-> word(i)],
                                 {i \in 1..Len(spaced) : spaced[i] # " "})
    IN  IF cleanName # <<>> /\ (IsUpper(cleanName[1]) \/ IsLower(cleanName[1]))
          THEN cleanName
          ELSE <<"C", "o", "m", "p", "o", "n", "e", "n", "t">> \o cleanName

\* a || b || c on strings: the first that is not empty
FirstNonEmpty(a, b, c) == IF a # <<>> THEN a ELSE IF b # <<>> THEN b ELSE c

\* a file name is the characters of its stem followed by its extension
Filename(stem, ext) == [stem |-> stem, ext |-> ext]

\* the stylesheet a markup file names: directory, stem and extension
Reference(dir, stem, ext) == [dir |-> dir, stem |-> stem, ext |-> ext]
NoReference == Reference("", <<>>, "")

\* the code of a file, as far as ir and the options decide it: the tree it
\* renders, the component name written into it, the stylesheet it names and
\* whether it carries the style rules itself
Code(ir, component, stylesheet, inline) ==
  [ir |-> ir, component |-> component, stylesheet |-> stylesheet, inline |-> inline]

GeneratedFile(filename, code, language) ==
  [filename |-> filename, code |-> code, language |-> language]

\* figma-ir.ts: the JSON serializer
jsonGenerate(ir, options) ==
  <<GeneratedFile(Filename(<<"f", "i", "g", "m", "a", "-", "e", "x", "p", "o", "r", "t">>, ".json"),
                  Code(ir, <<>>, NoReference, FALSE), "json")>>

\* react.ts: import styles from './${componentName}.module.css', where a
\* component could import one stylesheet name whatever its own name
sharedStylesheet(componentName) ==
  Reference("./", <<"s", "t", "y", "l", "e", "s">>, ".module.css")
stylesheetImport(componentName) == Reference("./", componentName, ".module.css")

\* react.ts: the React serializer
reactGenerate(ir, options) ==
  LET componentName ==
        sanitizeComponentName(
          FirstNonEmpty(options.componentName, ir.name,
                        <<"C", "o", "m", "p", "o", "n", "e", "n", "t">>))
  IN  <<GeneratedFile(Filename(componentName, ".tsx"),
                      Code(ir, componentName, stylesheetImport(componentName), FALSE),
                      "tsx"),
        GeneratedFile(Filename(componentName, ".module.css"),
                      Code(ir, <<>>, NoReference, TRUE), "css")>>

\* the HTML serializer: the component name is the title of the document
htmlGenerate(ir, options) ==
  LET componentName ==
        sanitizeClassName(
          FirstNonEmpty(options.componentName, ir.name,
                        <<"c", "o", "m", "p", "o", "n", "e", "n", "t">>))
  IN  <<GeneratedFile(Filename(<<"i", "n", "d", "e", "x">>, ".html"),
                      Code(ir, componentName,
                           Reference("", <<"s", "t", "y", "l", "e", "s">>, ".css"), FALSE),
                      "html"),
        GeneratedFile(Filename(<<"s", "t", "y", "l", "e", "s">>, ".css"),
                      Code(ir, <<>>, NoReference, TRUE), "css")>>

\* html.ts: one file with the rules in a style element, or two files
htmlStaticGenerate(ir, options) ==
  IF options.inlineCss
    THEN <<GeneratedFile(Filename(<<"i", "n", "d", "e", "x">>, ".html"),
                         Code(ir, <<>>, NoReference, TRUE), "html")>>
    ELSE <<GeneratedFile(Filename(<<"i", "n", "d", "e", "x">>, ".html"),
                         Code(ir, <<>>,
                              Reference("", <<"s", "t", "y", "l", "e">>, ".css"), FALSE),
                         "html"),
           GeneratedFile(Filename(<<"s", "t", "y", "l", "e">>, ".css"),
                         Code(ir, <<>>, NoReference, TRUE), "css")>>

\* the serializers of one file named after the component: the name of the
\* options as it is, or else the sanitized name of the tree
namedAfterOption(ir, options, fallback) ==
  FirstNonEmpty(options.componentName, sanitizeComponentName(ir.name), fallback)

\* the name written into the code of the file: export default
\* ${componentName}, where a serializer that honoured exportAsComponent would
\* leave the export out unless the option is set
namedWhenExported(ir, options, fallback) ==
  IF options.exportAsComponent THEN namedAfterOption(ir, options, fallback) ELSE <<>>
exportedName(ir, options, fallback) == namedAfterOption(ir, options, fallback)

singleFile(ir, options, fallback, ext, language) ==
  <<GeneratedFile(Filename(namedAfterOption(ir, options, fallback), ext),
                  Code(ir, exportedName(ir, options, fallback), NoReference, TRUE),
                  language)>>

FigmaName(kind) == <<"F", "i", "g", "m", "a">> \o kind

\* figma-ir.ts: the React Native serializer
reactNativeGenerate(ir, options) ==
  singleFile(ir, options,
             FigmaName(<<"C", "o", "m", "p", "o", "n", "e", "n", "t">>), ".tsx", "tsx")

swiftuiGenerate(ir, options) ==
  singleFile(ir, options, FigmaName(<<"V", "i", "e", "w">>), ".swift", "swift")

\* the file of the Flutter serializer is named in lower case
flutterGenerate(ir, options) ==
  LET file == singleFile(ir, options, FigmaName(<<"W", "i", "d", "g", "e", "t">>),
                         ".dart", "dart")[1]
  IN  <<[file EXCEPT !.filename.stem = lowerCase(@)]>>

vueGenerate(ir, options) ==
  singleFile(ir, options,
             FigmaName(<<"C", "o", "m", "p", "o", "n", "e", "n", "t">>), ".vue", "vue")

\* generate of the serializer id on the tree ir under the options
generateFiles(id, ir, options) ==
  CASE id = "json" -> jsonGenerate(ir, options)
    [] id = "html" -> htmlGenerate(ir, options)
    [] id = "html.ts" -> htmlStaticGenerate(ir, options)
    [] id = "react" -> reactGenerate(ir, options)
    [] id = "react-native" -> reactNativeGenerate(ir, options)
    [] id = "flutter" -> flutterGenerate(ir, options)
    [] id = "swiftui" -> swiftuiGenerate(ir, options)
    [] id = "vue3" -> vueGenerate(ir, options)

\* the component names a caller sets, the empty one standing for none
ComponentNames == { <<>>, <<"m", "y", " ", "c", "a", "r", "d">> }

Options ==
  [inlineCss : BOOLEAN, useTailwind : BOOLEAN, nullSafety : BOOLEAN,
   iosCompat : BOOLEAN, exportAsComponent : BOOLEAN, componentName : ComponentNames]

\* the trees handed to generate: the name is what the serializers read
OptionTrees == {[name |-> n] : n \in {<<"B", "t", "n", " ", "1">>, <<>>, <<"1", "x">>}}

\* the options on which the two contexts differ
Differing(a, b) == {o \in OptionNames : a[o] # b[o]}

\* two contexts that differ only in options the serializer does not support
TwiceArgs ==
  {x \in [fn : {"generateTwice"}, id : SerializerIds,
          ir : {[name |-> <<"B", "t", "n", " ", "1">>]},
          options : Options, other : Options] :
     Differing(x.options, x.other) \cap supportedOptions(x.id) = {}}

FilesArgs ==
  [fn : {"generateFiles"}, id : SerializerIds, ir : OptionTrees, options : Options]

----------------------------------------------------------------------------
(* text nodes in the markup of the serializers *)

MaxCharacters == 3      \* characters of a text node
MinFontSize == 12
MaxFontSize == 33

RECURSIVE replaceAll(_, _, _)
\* replace(/c/g, by) on a string
replaceAll(cs, c, by) ==
  IF cs = <<>> THEN <<>>
  ELSE (IF Head(cs) = c THEN by ELSE <<Head(cs)>>) \o replaceAll(Tail(cs), c, by)

\* react.ts and the HTML serializer: the content of a text element
escapeCharacters(characters) ==
  replaceAll(replaceAll(replaceAll(characters, "&", <<"&", "a", "m", "p", ";">>),
                        "<", <<"&", "l", "t", ";">>),
             ">", <<"&", "g", "t", ";">>)

\* String.prototype.includes
includes(cs, pattern) ==
  \E i \in 0..(Len(cs) - Len(pattern)) :
    \A k \in 1..Len(pattern) : cs[i + k] = pattern[k]

\* react.ts and the HTML serializer: the tag of an element
getSemanticTag(node) ==
  IF node.type = "text"
    THEN LET fontSize == node.textStyle.fontSize
         IN  IF fontSize >= 32 THEN "h1"
             ELSE IF fontSize >= 24 THEN "h2"
             ELSE IF fontSize >= 20 THEN "h3"
             ELSE IF fontSize >= 18 THEN "h4"
             ELSE IF fontSize >= 16 THEN "h5"
             ELSE IF fontSize >= 14 THEN "h6"
             ELSE "p"
    ELSE LET nameLower == lowerCase(node.name)
             has(pattern) == includes(nameLower, pattern)
         IN  IF has(<<"b", "u", "t", "t", "o", "n">>) \/ has(<<"b", "t", "n">>)
               THEN "button"
             ELSE IF has(<<"l", "i", "n", "k">>) THEN "a"
             ELSE IF has(<<"i", "m", "a", "g", "e">>) \/ has(<<"i", "m", "g">>)
               THEN "figure"
             ELSE IF has(<<"c", "a", "r", "d">>) THEN "article"
             ELSE IF has(<<"h", "e", "a", "d", "e", "r">>) THEN "header"
             ELSE IF has(<<"f", "o", "o", "t", "e", "r">>) THEN "footer"
             ELSE IF has(<<"n", "a", "v">>) THEN "nav"
             ELSE IF has(<<"s", "e", "c", "t", "i", "o", "n">>) THEN "section"
             ELSE "div"

\* an element of the markup: its tag and what stands between the tags
Element(tag, content) == [tag |-> tag, content |-> content]

\* react.ts, generateJSXElement on a text node
jsxTextElement(node) == Element(getSemanticTag(node), escapeCharacters(node.characters))

\* the HTML serializer, generateHTMLElement on a text node
htmlTextElement(node) == Element(getSemanticTag(node), escapeCharacters(node.characters))

\* html.ts, generateHtmlElement on a text node
htmlStaticTextElement(node) == Element("p", node.characters)

\* the Vue serializer, generateVueTemplate on a text node
vueTextElement(node) == Element("p", node.characters)

\* the text element of the serializer id
textElement(id, node) ==
  CASE id = "react" -> jsxTextElement(node)
    [] id = "html" -> htmlTextElement(node)
    [] id = "html.ts" -> htmlStaticTextElement(node)
    [] id = "vue3" -> vueTextElement(node)

MarkupIds == {"react", "html", "html.ts", "vue3"}

TextNode(name, characters, fontSize) ==
  [type |-> "text", name |-> name, characters |-> characters,
   textStyle |-> [fontSize |-> fontSize]]

TextAlphabet == {"a", "&", "<", ">"}

Characters == UNION {[1..n -> TextAlphabet] : n \in 0..MaxCharacters}

TextNames == { <<"T", "i", "t", "l", "e">>, <<"B", "t", "n">>, <<"n", "a", "v">> }

\* text nodes of every content at one size, and of every size and name with
\* one content
TextNodes ==
  {TextNode(<<"T", "i", "t", "l", "e">>, cs, 16) : cs \in Characters}
    \cup {TextNode(n, <<"a", "&">>, fs) : n \in TextNames, fs \in MinFontSize..MaxFontSize}

TextArgs == [fn : {"textElement"}, id : MarkupIds, node : TextNodes]

----------------------------------------------------------------------------
(* auto-layout containers in the HTML and React serializers *)

\* react.ts
shouldUseFlexbox(node) == node.type = "frame" /\ node.layoutProps.mode # "none"

\* justifyMap and alignMap of the HTML serializer, the switches of react.ts
flexAlignment(align) ==
  CASE align = "min" -> "flex-start"
    [] align = "center" -> "center"
    [] align = "max" -> "flex-end"
    [] align = "space-between" -> "space-between"

\* the declarations that generateNodeStyles makes of the layout descriptor
flexContainer(layout) ==
  Assign(Assign([display |-> "flex"], flexDirection(layout.mode)),
         [justifyContent |-> flexAlignment(layout.primaryAxisAlignItems),
          alignItems |-> flexAlignment(layout.counterAxisAlignItems)])

\* generateNodeStyles of the serializer id on a container
containerStyles(id, node) ==
  IF (id = "html" /\ hasAutoLayout(node)) \/ (id = "react" /\ shouldUseFlexbox(node))
    THEN flexContainer(node.layoutProps) ELSE <<>>

\* generateNodeStyles of the serializer id on a child of the container
\* parent: the HTML serializer positions the child of a container without
\* auto layout absolutely, react.ts positions no child
childStyles(id, parent) ==
  IF id = "html" /\ ~hasAutoLayout(parent) THEN [position |-> "absolute"] ELSE <<>>

ContainerTypes == {"frame", "component", "instance"}

LayoutProps ==
  [mode : {"none", "horizontal", "vertical"},
   primaryAxisAlignItems : {"min", "center", "max", "space-between"},
   counterAxisAlignItems : {"min", "center", "max"}]

ContainerArgs ==
  {[fn |-> "containerStyles", id |-> id, node |-> [type |-> t, layoutProps |-> l]] :
     id \in {"html", "react"}, t \in ContainerTypes, l \in LayoutProps}

----------------------------------------------------------------------------
(* controller.ts: sendSelectionData *)

\* a message posted to the UI: data is "null" or names the payload, and
\* error is the message of the error object, "" when the field is absent
PluginMessage(data, error) == [type |-> "selection-changed", data |-> data, error |-> error]

postMessage(outbox, message) == Append(outbox, message)

\* validateNode: a supported node with more than 5000 children is invalid
validateNode(node) ==
  IF node.type \notin {"FRAME", "GROUP", "COMPONENT", "INSTANCE", "TEXT", "RECTANGLE",
                       "ELLIPSE", "POLYGON", "STAR", "VECTOR", "LINE"}
    THEN [valid |-> TRUE, warning |-> TRUE]
  ELSE IF node.children > 5000
    THEN [valid |-> FALSE, warning |-> TRUE]
  ELSE [valid |-> TRUE, warning |-> FALSE]

\* the catch block around JSON.stringify and the post of the data
serializationCatch(node, outbox) ==
  postMessage(outbox, PluginMessage("null", "Element too large for export"))

\* the try block around JSON.stringify: a payload of more than 50 MB raises
serializeAndPost(node, outbox) ==
  IF node.sizeInMB > 50
    THEN serializationCatch(node, outbox)
    ELSE postMessage(outbox, PluginMessage("node", ""))

\* the try block around collectNodeTree, which posts and returns when
\* normalizeNode raised
collectAndPost(node, outbox) ==
  CASE node.normalize = "ok" -> serializeAndPost(node, outbox)
    [] node.normalize = "Maximum recursion" ->
         postMessage(outbox, PluginMessage("null", "Element has too many nested layers"))
    [] node.normalize = "children" ->
         postMessage(outbox, PluginMessage("null", "Element has too many child elements"))
    [] OTHER ->
         postMessage(outbox, PluginMessage("null", "Failed to process element structure"))

\* what follows the post of "Element too complex": the handler returns,
\* where a handler without the return statement would go on with the node
continueInvalid(node, outbox) == collectAndPost(node, outbox)
returnInvalid(node, outbox) == outbox

\* the branch selection.length === 1; reading the node can raise, which
\* the outer catch block reports
singleSelection(node, outbox) ==
  IF node.readThrows
    THEN postMessage(outbox, PluginMessage("null", "Failed to process selected element"))
  ELSE IF ~validateNode(node).valid
    THEN returnInvalid(node, postMessage(outbox, PluginMessage("null", "Element too complex")))
  ELSE collectAndPost(node, outbox)

\* the branch selection.length > 1: the nodes become the children of a
\* virtual group, a node on which collectNodeTree raises a fallback child;
\* when also the fallback cannot be built the catch block reports
multipleSelection(selection, outbox) ==
  IF selection.length > 50
    THEN postMessage(outbox, PluginMessage("null", "Too many elements selected"))
  ELSE IF selection.node.normalize # "ok" /\ selection.node.readThrows
    THEN postMessage(outbox, PluginMessage("null", "Failed to process multiple selection"))
  ELSE postMessage(outbox, PluginMessage("group", ""))

\* the messages posted by one run of sendSelectionData
sendSelectionData(selection) ==
  IF selection.length = 1 THEN singleSelection(selection.node, <<>>)
  ELSE IF selection.length > 1 THEN multipleSelection(selection, <<>>)
  ELSE postMessage(<<>>, PluginMessage("null", ""))

\* the nodes of a selection, as far as the controller looks at them: the
\* kind, the number of children, whether reading the node raises, how
\* normalizeNode ends on it and the size of the serialized payload
SelectedNodes ==
  [type : {"FRAME", "TEXT", "SLICE"},
   children : {0, 5000, 5001},
   readThrows : BOOLEAN,
   normalize : {"ok", "Maximum recursion", "children", "other"},
   sizeInMB : {1, 11, 50, 51}]

\* selections of no, one, several and too many nodes; node is the first
\* node of the selection, or the one of several that fails
SelectionArgs ==
  [fn : {"sendSelectionData"},
   selection : [length : {0, 1, 2, 50, 51}, node : SelectedNodes]]

----------------------------------------------------------------------------
(* the normalizer as a state machine *)

RegistryIdle ==
  /\ registry = StartUpRegistry
  /\ calls = StartUpOrder
  /\ lookup = NoLookup
  /\ listed = <<>>

GenerateIdle ==
  /\ selectedNode = GenTree(<<>>)
  /\ classCounter = 0
  /\ htmlClassCounter = 0
  /\ generated = NoOutput

UiIdle ==
  /\ variant = "App.tsx"
  /\ state = INITIAL_STATE
  /\ closure = Captured(INITIAL_STATE)
  /\ inflight = <<>>
  /\ lastCall = NoCall
  /\ handled = 0

PureIdle ==
  /\ arg = [fn |-> "none"]
  /\ ret = NotCalled

Init ==
  /\ input \in Inputs
  /\ result = NotCalled
  /\ pc = "ready"
  /\ RegistryIdle
  /\ GenerateIdle
  /\ UiIdle
  /\ PureIdle

\* normalizeNode(input)
NormalizeNode ==
  /\ pc = "ready"
  /\ result' = normalizeNode(input)
  /\ pc' = "done"
  /\ UNCHANGED <<input, regVars, genVars, uiVars, pureVars>>

Next == NormalizeNode

Spec == Init /\ [][Next]_vars

----------------------------------------------------------------------------
(* the registry as a state machine *)

NormalizerIdle ==
  /\ input = Star("FRAME", <<>>)
  /\ result = NotCalled
  /\ pc = "ready"

RegistryInit ==
  /\ NormalizerIdle
  /\ RegistryIdle
  /\ GenerateIdle
  /\ UiIdle
  /\ PureIdle

\* register(serializer), with a new serializer object of the given id
Register(id) ==
  /\ Len(calls) < Len(StartUpOrder) + MaxRegisterCalls
  /\ LET serializer == Serializer(id, Len(calls) + 1)
     IN  /\ registry' = register(registry, serializer)
         /\ calls' = Append(calls, serializer)
  /\ UNCHANGED <<lookup, listed, normVars, genVars, uiVars, pureVars>>

\* getSerializer(id)
GetSerializer(id) ==
  /\ lookup' = [id |-> id, value |-> getSerializer(registry, id), after |-> Len(calls)]
  /\ UNCHANGED <<registry, calls, listed, normVars, genVars, uiVars, pureVars>>

\* getAvailableSerializers()
GetAvailableSerializers ==
  /\ listed' = getAvailableSerializers(registry)
  /\ UNCHANGED <<registry, calls, lookup, normVars, genVars, uiVars, pureVars>>

RegistryNext ==
  \/ \E id \in RegisterIds : Register(id)
  \/ \E id \in LookupIds : GetSerializer(id)
  \/ GetAvailableSerializers

RegistrySpec == RegistryInit /\ [][RegistryNext]_vars

----------------------------------------------------------------------------
(* generate of the serializers as a state machine *)

GenerateInit ==
  /\ NormalizerIdle
  /\ RegistryIdle
  /\ selectedNode \in GenTrees
  /\ classCounter = 0
  /\ htmlClassCounter = 0
  /\ generated = NoOutput
  /\ UiIdle
  /\ PureIdle

\* reactSerializer.generate(selectedNode): the counter is reset, then every
\* node takes the next number
GenerateReact ==
  /\ generated' = [format |-> "react",
                   names |-> generateJSXElement(selectedNode, resetCounter(classCounter)),
                   entry |-> classCounter]
  /\ classCounter' = resetCounter(classCounter) + Len(VisitOrder(selectedNode))
  /\ UNCHANGED <<selectedNode, htmlClassCounter, normVars, regVars, uiVars, pureVars>>

\* generate of the HTML serializer with the class counter
GenerateHtml ==
  /\ generated' = [format |-> "html",
                   names |-> generateHTMLElement(selectedNode, resetCounter(htmlClassCounter)),
                   entry |-> htmlClassCounter]
  /\ htmlClassCounter' = resetCounter(htmlClassCounter) + Len(VisitOrder(selectedNode))
  /\ UNCHANGED <<selectedNode, classCounter, normVars, regVars, uiVars, pureVars>>

\* generate of html.ts
GenerateStaticHtml ==
  /\ generated' = [format |-> "html-static",
                   names |-> generateHtmlElement(selectedNode), entry |-> 0]
  /\ UNCHANGED <<selectedNode, classCounter, htmlClassCounter, normVars, regVars, uiVars, pureVars>>

\* vueSerializer.generate(selectedNode)
GenerateVue ==
  /\ generated' = [format |-> "vue3",
                   names |-> generateVueTemplate(selectedNode), entry |-> 0]
  /\ UNCHANGED <<selectedNode, classCounter, htmlClassCounter, normVars, regVars, uiVars, pureVars>>

\* reactNativeSerializer.generate(selectedNode)
GenerateReactNative ==
  /\ generated' = [format |-> "react-native",
                   names |-> generateRNComponent(selectedNode), entry |-> 0]
  /\ UNCHANGED <<selectedNode, classCounter, htmlClassCounter, normVars, regVars, uiVars, pureVars>>

\* reactSerializer.generate on another IR tree: its output replaces the one
\* of selectedNode and its nodes have taken their numbers
GenerateReactOther ==
  /\ generated' = NoOutput
  /\ classCounter' = resetCounter(classCounter) + OtherTreeNodes
  /\ UNCHANGED <<selectedNode, htmlClassCounter, normVars, regVars, uiVars, pureVars>>

\* generate of the HTML serializer on another IR tree
GenerateHtmlOther ==
  /\ generated' = NoOutput
  /\ htmlClassCounter' = resetCounter(htmlClassCounter) + OtherTreeNodes
  /\ UNCHANGED <<selectedNode, classCounter, normVars, regVars, uiVars, pureVars>>

GenerateNext ==
  \/ GenerateReact
  \/ GenerateHtml
  \/ GenerateStaticHtml
  \/ GenerateVue
  \/ GenerateReactNative
  \/ GenerateReactOther
  \/ GenerateHtmlOther

GenerateSpec == GenerateInit /\ [][GenerateNext]_vars

----------------------------------------------------------------------------
(* the UI as a state machine *)

UIInit ==
  /\ NormalizerIdle
  /\ RegistryIdle
  /\ GenerateIdle
  /\ variant \in {"App.tsx", "revamp"}
  /\ state = INITIAL_STATE
  /\ closure = Captured(INITIAL_STATE)
  /\ inflight = <<>>
  /\ lastCall = NoCall
  /\ handled = 0
  /\ PureIdle

\* the state, the calls in flight and the last ended call after a step of
\* generateCode
Becomes(after) ==
  /\ state' = after.state
  /\ inflight' = after.inflight
  /\ lastCall' = after.lastCall

\* handleMessage of a selection-changed message that carries a node; the
\* revamped UI then calls generateCodeRef.current, the generateCode of the
\* last render
HandleMessage ==
  /\ handled < MaxHandled
  /\ Len(inflight) < MaxInflight
  /\ handled' = handled + 1
  /\ LET selected == [state EXCEPT !.selectedNode = handled + 1,
                                   !.generatedFiles = NoFiles]
     IN  IF variant = "App.tsx"
           THEN /\ state' = selected
                /\ UNCHANGED <<inflight, lastCall>>
           ELSE Becomes(generateCode(variant, closure, registry,
                                     [selected EXCEPT !.error = NoError],
                                     inflight, lastCall))
  /\ UNCHANGED <<variant, closure, normVars, regVars, genVars, pureVars>>

\* handleMessage of a selection-changed message without data
HandleDeselect ==
  /\ handled < MaxHandled
  /\ handled' = handled + 1
  /\ state' = [state EXCEPT !.selectedNode = Null, !.generatedFiles = NoFiles]
  /\ UNCHANGED <<variant, closure, inflight, lastCall, normVars, regVars, genVars, pureVars>>

\* the format select: onValueChange / onChange
SelectFormat(f) ==
  /\ handled < MaxHandled
  /\ f # state.selectedFormat
  /\ handled' = handled + 1
  /\ state' = [state EXCEPT !.selectedFormat = f]
  /\ UNCHANGED <<variant, closure, inflight, lastCall, normVars, regVars, genVars, pureVars>>

\* the Generate button of the revamped UI: onClick of the generateCode of
\* the last render
ClickGenerate ==
  /\ variant = "revamp"
  /\ handled < MaxHandled
  /\ Len(inflight) < MaxInflight
  /\ handled' = handled + 1
  /\ Becomes(generateCode(variant, closure, registry, state, inflight, lastCall))
  /\ UNCHANGED <<variant, closure, normVars, regVars, genVars, pureVars>>

\* a render after selectedNode or selectedFormat changed: generateCode is
\* made anew; App.tsx runs its effect, which calls it when a node is
\* selected; the revamped UI stores it in generateCodeRef
Render ==
  /\ closure # Captured(state)
  /\ Len(inflight) < MaxInflight
  /\ closure' = Captured(state)
  /\ IF variant = "App.tsx" /\ state.selectedNode # Null
       THEN Becomes(generateCode(variant, Captured(state), registry, state,
                                 inflight, lastCall))
       ELSE UNCHANGED <<state, inflight, lastCall>>
  /\ UNCHANGED <<variant, handled, normVars, regVars, genVars, pureVars>>

\* serializer.generate of the oldest call in flight resolves with files
GenerateResolves ==
  /\ inflight # <<>>
  /\ LET c == Head(inflight)
         done == [state EXCEPT !.generatedFiles = [node |-> c.selectedNode,
                                                   format |-> c.selectedFormat],
                               !.isGenerating = FALSE]
     IN  /\ state' = done
         /\ lastCall' = Ended("resolved", c, done)
  /\ inflight' = Tail(inflight)
  /\ UNCHANGED <<variant, closure, handled, normVars, regVars, genVars, pureVars>>

\* serializer.generate of the oldest call in flight rejects
GenerateRejects ==
  /\ inflight # <<>>
  /\ LET c == Head(inflight)
         done == generateCodeCatch(variant, state)
     IN  /\ state' = done
         /\ lastCall' = Ended("rejected", c, done)
  /\ inflight' = Tail(inflight)
  /\ UNCHANGED <<variant, closure, handled, normVars, regVars, genVars, pureVars>>

UINext ==
  \/ HandleMessage
  \/ HandleDeselect
  \/ \E f \in UiFormats : SelectFormat(f)
  \/ ClickGenerate
  \/ Render
  \/ GenerateResolves
  \/ GenerateRejects

UISpec == UIInit /\ [][UINext]_vars

\* React renders after a state change, and a pending generate call settles
UIFairSpec ==
  /\ UISpec
  /\ WF_vars(Render)
  /\ WF_vars(GenerateResolves \/ GenerateRejects)

----------------------------------------------------------------------------
(* the functions of the serializers and of utils.ts, applied to an argument *)

PureArgs ==
  GenerateArgs \cup EffectsArgs \cup StylesArgs \cup FillArgs \cup RadiusArgs
    \cup TextArgs \cup ContainerArgs \cup SelectionArgs

PureInit ==
  /\ NormalizerIdle
  /\ RegistryIdle
  /\ GenerateIdle
  /\ UiIdle
  /\ arg \in PureArgs
  /\ ret = NotCalled

\* serializer.generate(ir, ctx)
Generate ==
  /\ arg.fn = "generate"
  /\ ret = NotCalled
  /\ ret' = generate(arg.id, arg.ir)
  /\ UNCHANGED <<arg, normVars, regVars, genVars, uiVars>>

\* normalizeEffects(node.effects)
NormalizeEffects ==
  /\ arg.fn = "normalizeEffects"
  /\ ret = NotCalled
  /\ ret' = Ok(normalizeEffects(arg.effects))
  /\ UNCHANGED <<arg, normVars, regVars, genVars, uiVars>>

\* generateNodeStyles(node) of the HTML serializer with the class counter
GenerateNodeStyles ==
  /\ arg.fn = "generateNodeStyles"
  /\ ret = NotCalled
  /\ ret' = Ok(generateNodeStyles(arg.node))
  /\ UNCHANGED <<arg, normVars, regVars, genVars, uiVars>>

\* generateCssClass(node) of html.ts
GenerateCssClass ==
  /\ arg.fn = "generateCssClass"
  /\ ret = NotCalled
  /\ ret' = Ok(generateCssClass(arg.node))
  /\ UNCHANGED <<arg, normVars, regVars, genVars, uiVars>>

\* fillToCss(fill)
FillToCss ==
  /\ arg.fn = "fillToCss"
  /\ ret = NotCalled
  /\ ret' = Ok(fillToCss(arg.fill))
  /\ UNCHANGED <<arg, normVars, regVars, genVars, uiVars>>

\* cornerRadiusToCss(radius)
CornerRadiusToCss ==
  /\ arg.fn = "cornerRadiusToCss"
  /\ ret = NotCalled
  /\ ret' = Ok(cornerRadiusToCss(arg.radius))
  /\ UNCHANGED <<arg, normVars, regVars, genVars, uiVars>>

\* cornerRadiusToCss(node.cornerRadius) on the IR of a node of the host
NormalizeCornerRadius ==
  /\ arg.fn = "normalizeCornerRadius"
  /\ ret = NotCalled
  /\ ret' = Ok(cornerRadiusToCss(normalizeCornerRadius(arg.node)))
  /\ UNCHANGED <<arg, normVars, regVars, genVars, uiVars>>

\* a serializer emits the element of a text node
TextElement ==
  /\ arg.fn = "textElement"
  /\ ret = NotCalled
  /\ ret' = Ok(textElement(arg.id, arg.node))
  /\ UNCHANGED <<arg, normVars, regVars, genVars, uiVars>>

\* a serializer styles a container and one of its children
ContainerStyles ==
  /\ arg.fn = "containerStyles"
  /\ ret = NotCalled
  /\ ret' = Ok([container |-> Eager(containerStyles(arg.id, arg.node)),
                child |-> Eager(childStyles(arg.id, arg.node))])
  /\ UNCHANGED <<arg, normVars, regVars, genVars, uiVars>>

\* the selection changes and the controller runs sendSelectionData
SendSelectionData ==
  /\ arg.fn = "sendSelectionData"
  /\ ret = NotCalled
  /\ ret' = Ok(sendSelectionData(arg.selection))
  /\ UNCHANGED <<arg, normVars, regVars, genVars, uiVars>>

PureNext ==
  \/ Generate
  \/ NormalizeEffects
  \/ GenerateNodeStyles
  \/ GenerateCssClass
  \/ FillToCss
  \/ CornerRadiusToCss
  \/ NormalizeCornerRadius
  \/ TextElement
  \/ ContainerStyles
  \/ SendSelectionData

PureSpec == PureInit /\ [][PureNext]_vars

----------------------------------------------------------------------------
(* generate under options, as a state machine *)

OptionsArgs == TwiceArgs \cup FilesArgs

OptionsInit ==
  /\ NormalizerIdle
  /\ RegistryIdle
  /\ GenerateIdle
  /\ UiIdle
  /\ arg \in OptionsArgs
  /\ ret = NotCalled

\* one call of generate
GenerateFiles ==
  /\ arg.fn = "generateFiles"
  /\ ret = NotCalled
  /\ ret' = Ok(<<generateFiles(arg.id, arg.ir, arg.options)>>)
  /\ UNCHANGED <<arg, normVars, regVars, genVars, uiVars>>

\* two calls of generate on the same tree, one under each context
GenerateTwice ==
  /\ arg.fn = "generateTwice"
  /\ ret = NotCalled
  /\ ret' = Ok(<<generateFiles(arg.id, arg.ir, arg.options),
                 generateFiles(arg.id, arg.ir, arg.other)>>)
  /\ UNCHANGED <<arg, normVars, regVars, genVars, uiVars>>

OptionsNext == GenerateFiles \/ GenerateTwice

OptionsSpec == OptionsInit /\ [][OptionsNext]_vars

----------------------------------------------------------------------------
(* overlapping generate calls of the serializers with a class counter *)

MaxCalls == 3       \* generate calls started
MaxOverlap == 2     \* generate calls awaiting formatPrettier at one time

\* the trees of the overlapping calls
OverlapTrees ==
  {GenTree(<<>>),
   GenTree(<<[name |-> <<"B", "t", "n">>, type |-> "frame"],
             [name |-> <<"B", "t", "n">>, type |-> "rectangle"]>>)}

OverlapInit ==
  /\ NormalizerIdle
  /\ RegistryIdle
  /\ GenerateIdle
  /\ UiIdle
  /\ PureIdle

\* the call in flight at position i is no longer the only one
Joined(waiting) == [i \in 1..Len(waiting) |-> [waiting[i] EXCEPT !.overlapped = TRUE]]

\* generate of the React serializer up to its first await: the counter is
\* reset, every node takes its number, and the call awaits formatPrettier
\* for the component and then for the style sheet
StartReact(tree) ==
  /\ handled < MaxCalls
  /\ Len(inflight) < MaxOverlap
  /\ handled' = handled + 1
  /\ classCounter' = resetCounter(classCounter) + Len(VisitOrder(tree))
  /\ inflight' = Append(Joined(inflight),
                        [format |-> "react", tree |-> tree,
                         names |-> generateJSXElement(tree, resetCounter(classCounter)),
                         awaits |-> 2,
                         overlapped |-> inflight # <<>>])
  /\ UNCHANGED <<selectedNode, htmlClassCounter, generated, variant, state, closure,
                 lastCall, normVars, regVars, pureVars>>

\* generate of the HTML serializer with the class counter up to its first
\* await
StartHtml(tree) ==
  /\ handled < MaxCalls
  /\ Len(inflight) < MaxOverlap
  /\ handled' = handled + 1
  /\ htmlClassCounter' = resetCounter(htmlClassCounter) + Len(VisitOrder(tree))
  /\ inflight' = Append(Joined(inflight),
                        [format |-> "html", tree |-> tree,
                         names |-> generateHTMLElement(tree, resetCounter(htmlClassCounter)),
                         awaits |-> 2,
                         overlapped |-> inflight # <<>>])
  /\ UNCHANGED <<selectedNode, classCounter, generated, variant, state, closure,
                 lastCall, normVars, regVars, pureVars>>

\* the first formatPrettier of the call at position i resolves and the call
\* awaits the second
FormatResolves(i) ==
  /\ i \in 1..Len(inflight)
  /\ inflight[i].awaits = 2
  /\ inflight' = [inflight EXCEPT ![i].awaits = 1]
  /\ UNCHANGED <<handled, genVars, variant, state, closure, lastCall,
                 normVars, regVars, pureVars>>

\* the second formatPrettier of the call at position i resolves and the
\* call returns its files
GenerateReturns(i) ==
  /\ i \in 1..Len(inflight)
  /\ inflight[i].awaits = 1
  /\ generated' = inflight[i]
  /\ inflight' = SubSeq(inflight, 1, i - 1) \o SubSeq(inflight, i + 1, Len(inflight))
  /\ UNCHANGED <<handled, selectedNode, classCounter, htmlClassCounter, variant, state,
                 closure, lastCall, normVars, regVars, pureVars>>

OverlapNext ==
  \/ \E tree \in OverlapTrees : StartReact(tree)
  \/ \E tree \in OverlapTrees : StartHtml(tree)
  \/ \E i \in 1..MaxOverlap : FormatResolves(i)
  \/ \E i \in 1..MaxOverlap : GenerateReturns(i)

OverlapSpec == OverlapInit /\ [][OverlapNext]_vars

----------------------------------------------------------------------------
(* properties of the normalizer *)

\* normalizeNode returned an IR tree
Returned == pc = "done" /\ result.ok

\* depth of a node in the scene graph, the root being at depth 0
SceneDepthOf(h) == Len(input.path[h]) - 1

\* depth of the scene graph
SceneDepth ==
  CHOOSE d \in 0..(MAX_RECURSION_DEPTH + DeepExtra + 2) :
    /\ \E h \in DOMAIN input.heap : SceneDepthOf(h) = d
    /\ \A h \in DOMAIN input.heap : SceneDepthOf(h) <= d

SceneChildren(h) ==
  IF Has(input.heap[h], "children") THEN input.heap[h].children ELSE <<>>

\* the IR node under handle h is reached from the root of the IR tree along
\* the path of h in the scene graph
OnIRPath(ir, h) ==
  /\ input.path[h][1] = ir.root
  /\ \A k \in 2..Len(input.path[h]) :
       LET p == input.path[h][k - 1]
           c == input.path[h][k]
       IN  /\ p \in DOMAIN ir.nodes
           /\ input.index[c] <= Len(IRChildren(ir.nodes[p]))
           /\ IRChildren(ir.nodes[p])[input.index[c]] = c

\* depth of the IR tree
IRDepth(ir) ==
  CHOOSE d \in 0..(MAX_RECURSION_DEPTH + DeepExtra + 2) :
    /\ \E h \in DOMAIN ir.nodes : SceneDepthOf(h) = d
    /\ \A h \in DOMAIN ir.nodes : SceneDepthOf(h) <= d

\* the IR node carries the identity and geometry of the scene node
SameIdentityAndGeometry(irNode, node) ==
  \A f \in {"id", "name", "x", "y", "width", "height"} :
    Has(irNode, f) /\ irNode[f] = node[f]

IRContainerTypes == {"frame", "component", "instance", "group"}

IRTypes ==
  {"frame", "component", "instance", "text", "vector", "star", "polygon",
   "ellipse", "rectangle", "image", "group"}

\* the external kinds that the normalizer has a case for
KnownKinds ==
  {"FRAME", "COMPONENT", "INSTANCE", "TEXT", "VECTOR", "STAR", "POLYGON",
   "ELLIPSE", "RECTANGLE", "GROUP"}

\* C1: normalizeNode never raises to its caller: whatever the external node,
\* also one whose base attributes cannot be read, the call returns an IR node.
C1_NeverRaises == pc = "done" => result.ok

\* C2: for a scene graph deeper than MAX_RECURSION_DEPTH the returned IR tree
\* has depth exactly MAX_RECURSION_DEPTH, and the nodes at that depth carry
\* the identity and geometry of the scene nodes they come from.
C2_DepthCutoff ==
  (Returned /\ SceneDepth > MAX_RECURSION_DEPTH) =>
    /\ \A h \in DOMAIN result.val.nodes : OnIRPath(result.val, h)
    /\ IRDepth(result.val) = MAX_RECURSION_DEPTH
    /\ \A h \in DOMAIN result.val.nodes :
         SceneDepthOf(h) = MAX_RECURSION_DEPTH =>
           SameIdentityAndGeometry(result.val.nodes[h], input.heap[h])

\* C3: when the normalization of a child of a frame, component, instance or
\* group fails, whatever the cause, that child alone becomes a fallback
\* vector node: the container keeps all the children it processes, in their
\* positions, and the other children are normalized as usual.
C3_ChildIsolation ==
  Returned =>
    \A h \in DOMAIN result.val.nodes :
      (/\ result.val.nodes[h].type \in IRContainerTypes
       /\ SceneDepthOf(h) <= MAX_RECURSION_DEPTH) =>
        LET todo == childrenToProcess(SceneChildren(h))
        IN  /\ IRChildren(result.val.nodes[h]) = todo
            /\ \A i \in 1..Len(todo) :
                 /\ todo[i] \in DOMAIN result.val.nodes
                 /\ IF callRaises(input.heap[todo[i]], SceneDepthOf(h) + 1)
                      THEN /\ result.val.nodes[todo[i]].type = "vector"
                           /\ IRChildren(result.val.nodes[todo[i]]) = <<>>
                      ELSE result.val.nodes[todo[i]] =
                             NodeJson(normalizeNodeWithDepth(
                                        input.heap, todo[i], SceneDepthOf(h) + 1).val)

\* C4: a container with more than MAX_CHILDREN_COUNT children normalizes to
\* exactly MAX_CHILDREN_COUNT children, the normalizations of its first
\* MAX_CHILDREN_COUNT children in their order, and the call does not fail.
C4_ChildTruncation ==
  (/\ pc = "done"
   /\ input.heap[input.root].type \in ContainerKinds
   /\ Len(SceneChildren(input.root)) > MAX_CHILDREN_COUNT) =>
    /\ result.ok
    /\ Len(IRChildren(result.val.nodes[result.val.root])) = MAX_CHILDREN_COUNT
    /\ \A i \in 1..MAX_CHILDREN_COUNT :
         LET c == SceneChildren(input.root)[i]
         IN  /\ IRChildren(result.val.nodes[result.val.root])[i] = c
             /\ c \in DOMAIN result.val.nodes
             /\ Has(result.val.nodes[c], "id")
             /\ result.val.nodes[c].id = input.heap[c].id

\* the scene graph is within the limits of the traversal
WithinLimits ==
  /\ SceneDepth <= MAX_RECURSION_DEPTH
  /\ \A h \in DOMAIN input.heap : Len(SceneChildren(h)) <= MAX_CHILDREN_COUNT

\* C5: for a scene graph of depth at most MAX_RECURSION_DEPTH with at most
\* MAX_CHILDREN_COUNT children per node the IR tree has the shape of the
\* scene graph: the same nodes, each with the same children in the same
\* order.
C5_SameShape ==
  (pc = "done" /\ WithinLimits) =>
    /\ result.ok
    /\ result.val.root = input.root
    /\ DOMAIN result.val.nodes = DOMAIN input.heap
    /\ \A h \in DOMAIN input.heap :
         IRChildren(result.val.nodes[h]) = SceneChildren(h)

\* C6: the returned IR is a fixed point of serialize-then-parse: serializing
\* it does not raise and parsing the text back gives an equal tree.
C6_RoundTrip ==
  Returned =>
    /\ ~StringifyThrows(result.val)
    /\ JsonRoundTrip(result.val) = result.val

\* C7: every node of the returned IR tree has a type of the closed set, and
\* a node that comes from an external node of any other kind has type vector
\* and no children, at every depth.
C7_ClosedTypes ==
  Returned =>
    \A h \in DOMAIN result.val.nodes :
      /\ result.val.nodes[h].type \in IRTypes
      /\ input.heap[h].type \notin KnownKinds =>
           /\ result.val.nodes[h].type = "vector"
           /\ IRChildren(result.val.nodes[h]) = <<>>

----------------------------------------------------------------------------
(* properties of the frame-like nodes *)

\* C27: in an IR tree returned by normalizeNode every node of type frame,
\* component or instance has a children list and a layoutProps record, and
\* every group a children list, at every depth, the depth of the cutoff
\* included: layoutProps.mode of a frame-like node can be read
C27_FrameLikeComplete ==
  Returned =>
    \A h \in DOMAIN result.val.nodes :
      LET node == result.val.nodes[h]
      IN  /\ node.type \in {"frame", "component", "instance"} =>
               /\ Has(node, "children")
               /\ Has(node, "layoutProps")
               /\ Has(node.layoutProps, "mode")
          /\ node.type = "group" => Has(node, "children")

----------------------------------------------------------------------------
(* properties of the registry *)

\* the register calls made before the lookup with the id that was looked up
RegisteredBefore ==
  {i \in 1..lookup.after : calls[i].id = lookup.id}

\* C8: getSerializer(id) returns undefined for an id that was never
\* registered, and for a registered id the serializer most recently
\* registered under it.
C8_LookupResult ==
  lookup # NoLookup =>
    IF RegisteredBefore = {}
      THEN lookup.value = Undefined
      ELSE lookup.value =
             calls[CHOOSE i \in RegisteredBefore : \A j \in RegisteredBefore : j <= i]

\* C9: after the start-up registration every id of the format catalog
\* resolves through getSerializer to a serializer with that id.
C9_CatalogResolves ==
  calls = StartUpOrder =>
    \A i \in 1..Len(FormatCatalog) :
      /\ getSerializer(registry, FormatCatalog[i]) # Undefined
      /\ getSerializer(registry, FormatCatalog[i]).id = FormatCatalog[i]

----------------------------------------------------------------------------
(* properties of the serializers *)

\* two nodes of the tree with the same parent
Siblings(tree, a, b) ==
  /\ a # b
  /\ \E p \in DOMAIN tree.nodes :
       /\ Within(tree.nodes[p].children, a)
       /\ Within(tree.nodes[p].children, b)

\* C10: in the output of generate of every serializer that emits per-node
\* class or style identifiers, two siblings with identical names get two
\* distinct identifiers.
C10_DistinctIdentifiers ==
  generated.format # "none" =>
    \A a, b \in DOMAIN selectedNode.nodes :
      (/\ Siblings(selectedNode, a, b)
       /\ selectedNode.nodes[a].name = selectedNode.nodes[b].name) =>
        generated.names[a] # generated.names[b]

\* the output of the call generate(tree) of the serializer made first in a
\* fresh process, where the class counters have their initial value
FreshOutput(format, tree) ==
  CASE format = "react" -> generateJSXElement(tree, 0)
    [] format = "html" -> generateHTMLElement(tree, 0)
    [] format = "html-static" -> generateHtmlElement(tree)
    [] format = "vue3" -> generateVueTemplate(tree)
    [] format = "react-native" -> generateRNComponent(tree)

\* C11: generate is independent of history: whatever generate calls were
\* made before, the output of generate on a tree is the output of the same
\* call made first in a fresh process.
C11_HistoryIndependent ==
  generated.format # "none" =>
    generated.names = FreshOutput(generated.format, selectedNode)

\* a generate call of a serializer with a class counter that found the
\* counter advanced by earlier calls, on the same tree and on another one
C11_Witness ==
  /\ generated.format \in {"react", "html"}
  /\ generated.entry = OtherTreeNodes
  /\ Cardinality(DOMAIN selectedNode.nodes) > 1
  /\ generated.names = FreshOutput(generated.format, selectedNode)

----------------------------------------------------------------------------
(* properties of the class counter *)

RECURSIVE Number(_)
\* the number that decimal digits denote
Number(ds) ==
  IF ds = <<>> THEN 0
  ELSE Number(SubSeq(ds, 1, Len(ds) - 1)) * 10
         + ((CHOOSE i \in 1..10 : DecimalDigits[i] = ds[Len(ds)]) - 1)

\* the number after the last separator of a class name
SuffixOf(name, separator) ==
  LET last == CHOOSE i \in 1..Len(name) :
                /\ name[i] = separator
                /\ \A k \in (i + 1)..Len(name) : name[k] # separator
  IN  Number(SubSeq(name, last + 1, Len(name)))

\* the suffix of the class name emitted for the node h
Suffix(h) ==
  SuffixOf(generated.names[h], IF generated.format = "react" THEN "_" ELSE "-")

RECURSIVE SizeBelow(_, _, _)
\* the number of nodes in the subtrees of the handles hs
SizeBelow(nodes, hs, fuel) ==
  IF hs = <<>> \/ fuel = 0 THEN 0
  ELSE 1 + SizeBelow(nodes, nodes[Head(hs)].children, fuel - 1)
         + SizeBelow(nodes, Tail(hs), fuel)

\* C26: within one generate call of the React serializer and of the HTML
\* serializer with the counter, the suffixes of the class names are given in
\* pre-order: the root has 1, the first child of a node the number after its
\* parent's, the next sibling the number after the last one of the subtree
\* before it, so that the suffixes of N nodes are 1..N, each once
C26_PreOrderSuffixes ==
  generated.format \in {"react", "html"} =>
    LET nodes == selectedNode.nodes
        size(h) == SizeBelow(nodes, <<h>>, Cardinality(DOMAIN nodes))
    IN  /\ Suffix(selectedNode.root) = 1
        /\ {Suffix(h) : h \in DOMAIN nodes} = 1..Cardinality(DOMAIN nodes)
        /\ \A a, b \in DOMAIN nodes : a # b => Suffix(a) # Suffix(b)
        /\ \A p \in DOMAIN nodes :
             LET kids == nodes[p].children
             IN  \A i \in 1..Len(kids) :
                   Suffix(kids[i]) =
                     IF i = 1 THEN Suffix(p) + 1
                     ELSE Suffix(kids[i - 1]) + size(kids[i - 1])

\* the React serializer emitted a frame with two children after earlier
\* calls: the first child, a frame, has 2, the rectangle in it 3 and the
\* second child 4
C26_Witness ==
  /\ generated.format = "react"
  /\ generated.entry > 0
  /\ Len(selectedNode.nodes[1].children) = 2
  /\ selectedNode.nodes[2].children = <<4>>
  /\ Suffix(1) = 1 /\ Suffix(2) = 2 /\ Suffix(4) = 3 /\ Suffix(3) = 4

----------------------------------------------------------------------------
(* properties of the UI *)

\* C12: every generateCode call that went past the selection test ends with
\* isGenerating = false and with either its files stored or a structured
\* error recorded, also when no serializer is found or generate rejects.
C12_EndsSettled ==
  lastCall.how \in {"resolved", "rejected", "not found"} =>
    /\ ~lastCall.isGenerating
    /\ lastCall.stored \/ lastCall.recorded

\* C17: when a selection-changed message that carries node n has been
\* handled, generation runs for n itself: unless the selection changes
\* again, the files of n are eventually stored (or generate of n rejects).
C17_GeneratesSelected ==
  \A n \in 1..MaxHandled :
    (state.selectedNode = n) ~>
      \/ state.selectedNode # n
      \/ state.generatedFiles.node = n
      \/ lastCall.node = n /\ lastCall.how = "rejected"

\* C30: whenever generatedFiles is not empty the files are those of the
\* node that is selected now: a generate call that resolves after the
\* selection changed or was cleared does not store its files, whatever the
\* order of selection-changed messages and completions
C30_FilesOfSelected ==
  state.generatedFiles # NoFiles => state.generatedFiles.node = state.selectedNode

----------------------------------------------------------------------------
(* properties of generate on groups *)

\* C13: for an IR that is a group with at least one child, generate of every
\* registered serializer completes and returns at least one file that
\* contains all the children.
C13_GroupGenerates ==
  (/\ arg.fn = "generate"
   /\ arg.ir.type = "group"
   /\ ChildrenOf(arg.ir) # <<>>
   /\ ret # NotCalled) =>
    /\ ret.ok
    /\ ret.val.files >= 1
    /\ ret.val.children = arg.ir.children

----------------------------------------------------------------------------
(* properties of normalizeEffects *)

\* C14: an effect whose visible flag is false is kept in the normalized
\* effects, carrying visible = false: the IR has as many effects as the
\* source, in the same order.
C14_InvisibleKept ==
  (arg.fn = "normalizeEffects" /\ ret # NotCalled) =>
    /\ Len(ret.val) = Len(arg.effects)
    /\ \A i \in 1..Len(arg.effects) :
         /\ ret.val[i].source = i
         /\ ret.val[i].visible = arg.effects[i].visible

----------------------------------------------------------------------------
(* properties of the text style *)

TextStyleFields ==
  {"fontFamily", "fontWeight", "fontSize", "lineHeight", "letterSpacing",
   "textAlignHorizontal", "textAlignVertical", "textDecoration", "textCase"}

\* C15: the IR node of every text node has a textStyle with every field
\* defined, whatever style properties of the text node are absent or mixed,
\* and a field without a usable source value holds its default.
C15_TextStyleComplete ==
  Returned =>
    \A h \in DOMAIN result.val.nodes :
      input.heap[h].type = "TEXT" =>
        /\ Has(result.val.nodes[h], "textStyle")
        /\ TextStyleFields \subseteq DOMAIN result.val.nodes[h].textStyle
        /\ LET src == input.heap[h]
               style == result.val.nodes[h].textStyle
           IN  /\ ~Has(src, "fontName") =>
                    style.fontFamily = "Inter" /\ style.fontWeight = 400
               /\ ~Has(src, "fontSize") => style.fontSize = 16
               /\ ~Has(src, "lineHeight") => style.lineHeight = [auto |-> TRUE]
               /\ ~Has(src, "letterSpacing") => style.letterSpacing = 0
               /\ ~Has(src, "textAlignHorizontal") => style.textAlignHorizontal = "left"
               /\ ~Has(src, "textAlignVertical") => style.textAlignVertical = "top"
               /\ ~Has(src, "textDecoration") => style.textDecoration = "none"
               /\ ~Has(src, "textCase") => style.textCase = "original"

----------------------------------------------------------------------------
(* properties of the fallback node *)

\* the call on the root raised into the catch block of normalizeNode
RootRaised == callRaises(input.heap[input.root], 0)

\* the serializability check of sanitizeIRNode failed on the tree
CheckFailed ==
  LET r == normalizeNodeWithDepth(input.heap, input.root, 0)
      b == normalizeBaseNode(input.heap[input.root])
  IN  IF r.ok
        THEN StringifyThrows(IRTree(input, r.val))
        ELSE b.ok /\ StringifyThrows(Single(input.root, Assign(b.val, [type |-> "vector"])))

Readable(node, f) == Has(node, f) /\ node[f] \notin {UNDEFINED, THROWS}

\* C16: a fallback node returned by normalizeNode, after an internal failure
\* or after the serializability check failed, has type vector and the id,
\* name, x, y, width and height of the original node where these are
\* readable.
C16_FallbackKeeps ==
  (Returned /\ (RootRaised \/ CheckFailed)) =>
    LET src == input.heap[input.root]
        ir == result.val.nodes[result.val.root]
    IN  /\ ir.type = "vector"
        /\ \A f \in {"id", "name"} :
             Readable(src, f) => Has(ir, f) /\ ir[f] = src[f]
        /\ \A f \in {"x", "y", "width", "height"} :
             Has(src, f) => Has(ir, f) /\ ir[f] = src[f]

----------------------------------------------------------------------------
(* properties of the HTML layout styles *)

\* the length is px pixels in rem, 16 px to the rem, to three decimals
IsRemOf(length, px) ==
  /\ length.unit = "rem"
  /\ length.thousandths * 16 - px * 1000 \in -8..8

\* C18: an HTML serializer emits a frame with vertical auto-layout and item
\* spacing s > 0 as a flex container with flex-direction column and a gap of
\* s / 16 rem, not a gap in pixels.
C18_GapInRem ==
  (/\ arg.fn \in {"generateNodeStyles", "generateCssClass"}
   /\ ret # NotCalled
   /\ arg.node.layoutProps.mode = "vertical"
   /\ arg.node.layoutProps.itemSpacing > 0) =>
    /\ Has(ret.val, "display") /\ ret.val.display = "flex"
    /\ Has(ret.val, "flexDirection") /\ ret.val.flexDirection = "column"
    /\ Has(ret.val, "gap") /\ IsRemOf(ret.val.gap, arg.node.layoutProps.itemSpacing)

----------------------------------------------------------------------------
(* properties of fillToCss *)

\* a call of fillToCss on a linear gradient with stops has returned
LinearDone ==
  /\ arg.fn = "fillToCss"
  /\ ret # NotCalled
  /\ arg.fill.gradient.type = "linear"
  /\ arg.fill.gradient.stops # <<>>

----------------------------------------------------------------------------
(* properties of cornerRadiusToCss *)

\* the radius of a corner in a descriptor: its own field, else all, else 0
Corner(radius, f) ==
  IF Has(radius, f) THEN radius[f]
  ELSE IF Has(radius, "all") THEN radius.all ELSE 0

\* the value for the four corners tl, tr, br, bl
Shorthand(tl, tr, br, bl) ==
  IF tl = tr /\ tr = br /\ br = bl THEN <<tl>> ELSE <<tl, tr, br, bl>>

\* C20: cornerRadiusToCss returns the single value R px when the four
\* corners equal R and else the four values topLeft topRight bottomRight
\* bottomLeft, a missing corner being 0; so it does on the descriptor that
\* the normalizer makes for a node whose four corners differ.
C20_CornerRadius ==
  /\ (arg.fn = "cornerRadiusToCss" /\ ret # NotCalled) =>
       ret.val = Shorthand(Corner(arg.radius, "topLeft"), Corner(arg.radius, "topRight"),
                           Corner(arg.radius, "bottomRight"), Corner(arg.radius, "bottomLeft"))
  /\ (arg.fn = "normalizeCornerRadius" /\ ret # NotCalled
        /\ Has(arg.node, "topLeftRadius")) =>
       ret.val = Shorthand(arg.node.topLeftRadius, arg.node.topRightRadius,
                           arg.node.bottomRightRadius, arg.node.bottomLeftRadius)

C20_Witness ==
  /\ arg.fn = "normalizeCornerRadius"
  /\ ret # NotCalled
  /\ Mixed(arg.node, "cornerRadius")
  /\ Len(ret.val) = 4

----------------------------------------------------------------------------
(* properties of generate under options *)

TwiceDone == arg.fn = "generateTwice" /\ ret # NotCalled

\* C21: for every serializer, two calls of generate on the same tree under
\* contexts that differ only in options outside supportedOptions return the
\* same files: the same file names, code and language tags
C21_UnsupportedIgnored ==
  (TwiceDone /\ Differing(arg.options, arg.other) \cap supportedOptions(arg.id) = {})
    => ret.val[1] = ret.val[2]

\* the React Native serializer was called under two contexts that differ in
\* three options it does not support, and returned the same files
C21_Witness ==
  /\ TwiceDone
  /\ arg.id = "react-native"
  /\ Differing(arg.options, arg.other) = {"exportAsComponent", "inlineCss", "nullSafety"}
  /\ ret.val[1] = ret.val[2]

FilesDone == arg.fn = "generateFiles" /\ ret # NotCalled

\* the files of a finished call of generate
Files == ret.val[1]

\* the component name the caller chose: the option, or else the name of the
\* tree
ChosenName(fallback) == FirstNonEmpty(arg.options.componentName, arg.ir.name, fallback)

\* the file a reference names, next to the file that holds the reference
Named(reference) == Filename(reference.stem, reference.ext)

\* C22: in a result of generate of more than one file the file names are
\* decided by the chosen component name alone and the stylesheet that the
\* markup file refers to is the stylesheet file of the same result: React
\* returns N.tsx and N.module.css, N.tsx importing './N.module.css', N being
\* the sanitized component name, and the index.html of the HTML serializers
\* links the stylesheet file returned with it
C22_StylesheetReturned ==
  (FilesDone /\ Len(Files) > 1) =>
    /\ Len(Files) = 2
    /\ Files[2].language = "css"
    /\ Named(Files[1].code.stylesheet) = Files[2].filename
    /\ arg.id = "react" =>
         LET N == sanitizeComponentName(
                    ChosenName(<<"C", "o", "m", "p", "o", "n", "e", "n", "t">>))
         IN  /\ Files[1].filename = Filename(N, ".tsx")
             /\ Files[2].filename = Filename(N, ".module.css")
             /\ Files[1].code.stylesheet = Reference("./", N, ".module.css")
    /\ arg.id \in {"html", "html.ts"} =>
         /\ Files[1].filename = Filename(<<"i", "n", "d", "e", "x">>, ".html")
         /\ Files[1].code.stylesheet.dir = ""
         /\ Files[2].filename.ext = ".css"

\* the React serializer was called with the component name "my card" and
\* returned MyCard.tsx, which imports the MyCard.module.css returned with it
C22_Witness ==
  /\ FilesDone
  /\ arg.id = "react"
  /\ arg.options.componentName = <<"m", "y", " ", "c", "a", "r", "d">>
  /\ Len(Files) = 2
  /\ Files[1].filename = Filename(<<"M", "y", "C", "a", "r", "d">>, ".tsx")
  /\ Files[2].filename = Filename(<<"M", "y", "C", "a", "r", "d">>, ".module.css")
  /\ Named(Files[1].code.stylesheet) = Files[2].filename

----------------------------------------------------------------------------
(* properties of the text elements *)

TextDone == arg.fn = "textElement" /\ ret # NotCalled

\* the characters at the positions from..to of cs
Slice(cs, from, to) == [k \in 1..(to - from + 1) |-> cs[from + k - 1]]

\* the entity that starts at position i, as the character it stands for
EntityAt(cs, i) ==
  IF i + 4 <= Len(cs) /\ Slice(cs, i, i + 4) = <<"&", "a", "m", "p", ";">> THEN "&"
  ELSE IF i + 3 <= Len(cs) /\ Slice(cs, i, i + 3) = <<"&", "l", "t", ";">> THEN "<"
  ELSE IF i + 3 <= Len(cs) /\ Slice(cs, i, i + 3) = <<"&", "g", "t", ";">> THEN ">"
  ELSE ""

RECURSIVE Unescaped(_)
\* what a reader of the markup makes of the content: each entity is the
\* character it stands for
Unescaped(cs) ==
  IF cs = <<>> THEN <<>>
  ELSE IF EntityAt(cs, 1) = "&" THEN <<"&">> \o Unescaped(SubSeq(cs, 6, Len(cs)))
  ELSE IF EntityAt(cs, 1) # "" THEN <<EntityAt(cs, 1)>> \o Unescaped(SubSeq(cs, 5, Len(cs)))
  ELSE <<Head(cs)>> \o Unescaped(Tail(cs))

\* C23: the content of the element that a markup serializer emits for a
\* text node holds no '<' and no '>', every '&' in it starts an entity, and
\* the entities are not escaped again: read back, the content is the
\* characters of the node
C23_TextEscaped ==
  TextDone =>
    LET content == ret.val.content
    IN  /\ \A i \in 1..Len(content) :
             /\ content[i] \notin {"<", ">"}
             /\ content[i] = "&" => EntityAt(content, i) # ""
        /\ Unescaped(content) = arg.node.characters

HeadingFor(s) ==
  IF s >= 32 THEN "h1" ELSE IF s >= 24 THEN "h2" ELSE IF s >= 20 THEN "h3"
  ELSE IF s >= 18 THEN "h4" ELSE IF s >= 16 THEN "h5" ELSE IF s >= 14 THEN "h6"
  ELSE "p"

\* C24: the HTML and React serializers give a text node of font size s the
\* tag h1 for s >= 32, h2 for 24 <= s < 32, h3 for 20 <= s < 24, h4 for
\* 18 <= s < 20, h5 for 16 <= s < 18, h6 for 14 <= s < 16 and p otherwise,
\* whatever the name of the node
C24_TagFromFontSize ==
  (TextDone /\ arg.id \in {"react", "html", "html.ts"})
    => ret.val.tag = HeadingFor(arg.node.textStyle.fontSize)

----------------------------------------------------------------------------
(* properties of the auto-layout containers *)

ContainerDone == arg.fn = "containerStyles" /\ ret # NotCalled

\* C25: a container whose layout mode is not none, be it a frame, a
\* component or an instance, is emitted by the HTML and React serializers
\* as a flex container with the direction and alignment of its layout
\* descriptor, and its children are not positioned absolutely
C25_ContainersFlex ==
  (ContainerDone /\ arg.node.layoutProps.mode # "none") =>
    LET layout == arg.node.layoutProps
        styles == ret.val.container
    IN  /\ Has(styles, "display") /\ styles.display = "flex"
        /\ Has(styles, "flexDirection")
        /\ styles.flexDirection = (IF layout.mode = "horizontal" THEN "row" ELSE "column")
        /\ Has(styles, "justifyContent")
        /\ styles.justifyContent = flexAlignment(layout.primaryAxisAlignItems)
        /\ Has(styles, "alignItems")
        /\ styles.alignItems = flexAlignment(layout.counterAxisAlignItems)
        /\ ~Has(ret.val.child, "position")

----------------------------------------------------------------------------
(* properties of the controller *)

SelectionSent == arg.fn = "sendSelectionData" /\ ret # NotCalled

----------------------------------------------------------------------------
(* properties of overlapping generate calls *)

\* C29: a generate call of the React serializer or of the HTML serializer
\* with the counter that runs while another call is awaiting returns the
\* files it returns when run alone: the counter is reset and used up before
\* the first await, so that no interleaving lets a call see or move the
\* counter values of another
C29_OverlapIndependent ==
  generated.format # "none" =>
    generated.names = FreshOutput(generated.format, generated.tree)

\* a React call on a tree of several nodes that was awaiting together
\* with another call, one React call still awaiting, returned the names it
\* returns alone
C29_Witness ==
  /\ generated.format = "react"
  /\ generated.overlapped
  /\ Cardinality(DOMAIN generated.tree.nodes) > 1
  /\ \E i \in 1..Len(inflight) : inflight[i].format = "react"
  /\ generated.names = FreshOutput(generated.format, generated.tree)
====
